---- MODULE Spec2Model ----
(***************************************************************************)
(* Model of roqoqo-qasm: the QASM Backend (circuit -> QASM text, text ->   *)
(* file), the interface (call_operation, gate_definition) and the parser   *)
(* (gate_dispatch, parse_single_rule).                                     *)
(*                                                                         *)
(* A String of QASM is modelled as a sequence of tokens.  A token is a     *)
(* record with a field `rule`; the token NL is the character '\n', every   *)
(* other token is one statement (everything format! writes up to and       *)
(* including the closing ';' or '}').  Concatenation of Strings is \o, the *)
(* empty String is << >>.                                                  *)
(***************************************************************************)
EXTENDS Integers, Sequences, FiniteSets, TLC

\* ------------------------------------------------------------------ bounds
MaxLen == 2
MaxCalls == 2

\* --------------------------------------------------------------- versions
V2point0 == "2.0"
V3Vanilla == "3.0Vanilla"
V3Roqoqo == "3.0Roqoqo"
V3Braket == "3.0Braket"
QasmVersion == {V2point0, V3Vanilla, V3Roqoqo, V3Braket}

IsV3(v) == v \in {V3Vanilla, V3Roqoqo, V3Braket}

\* -------------------------------------------------------- CalculatorFloat
\* A CalculatorFloat is Float(f64) or Str(expression).  Floats are counted
\* in thousandths: 1571 is pi/2, 3142 is pi.
PiMilli == 3142
HalfPiMilli == 1571

CFloat(x) == [float |-> TRUE, v |-> x, s |-> ""]
CStr(e) == [float |-> FALSE, v |-> 0, s |-> e]

\* Display of a CalculatorFloat inside format!: a numeric literal for Float,
\* the expression itself for Str.
ParamText(cf) == [num |-> cf.float, v |-> cf.v, s |-> cf.s]
ExprText(e) == [num |-> FALSE, v |-> 0, s |-> e]

\* ------------------------------------------------------------- operations
RotateX(q, theta) == [hqslang |-> "RotateX", qubit |-> q, theta |-> theta]
RotateZ(q, theta) == [hqslang |-> "RotateZ", qubit |-> q, theta |-> theta]
PauliX(q) == [hqslang |-> "PauliX", qubit |-> q]
Hadamard(q) == [hqslang |-> "Hadamard", qubit |-> q]
Identity(q) == [hqslang |-> "Identity", qubit |-> q]
CNOT(c, t) == [hqslang |-> "CNOT", control |-> c, target |-> t]
MolmerSorensenXX(c, t) == [hqslang |-> "MolmerSorensenXX", control |-> c, target |-> t]
VariableMSXX(c, t, theta) ==
    [hqslang |-> "VariableMSXX", control |-> c, target |-> t, theta |-> theta]
Bogoliubov(c, t) == [hqslang |-> "Bogoliubov", control |-> c, target |-> t]
GPi(q, theta) == [hqslang |-> "GPi", qubit |-> q, theta |-> theta]
GPi2(q, theta) == [hqslang |-> "GPi2", qubit |-> q, theta |-> theta]
MeasureQubit(q, ro, i) ==
    [hqslang |-> "MeasureQubit", qubit |-> q, readout |-> ro, readout_index |-> i]
DefinitionBit(n, l, o) ==
    [hqslang |-> "DefinitionBit", name |-> n, length |-> l, is_output |-> o]
DefinitionFloat(n, l, o) ==
    [hqslang |-> "DefinitionFloat", name |-> n, length |-> l, is_output |-> o]
InputSymbolic(n) == [hqslang |-> "InputSymbolic", name |-> n]
InputBit(n, i, b) == [hqslang |-> "InputBit", name |-> n, index |-> i, value |-> b]
PragmaStopParallelBlock(qs) == [hqslang |-> "PragmaStopParallelBlock", qubits |-> qs]
PragmaActiveReset(q) == [hqslang |-> "PragmaActiveReset", qubit |-> q]
\* qubit_mapping: << >> with mapped = FALSE is None; otherwise the pairs of
\* the HashMap in the order in which this HashMap iterates.
PragmaRepeatedMeasurement(ro, n, mapped, qm) ==
    [hqslang |-> "PragmaRepeatedMeasurement", readout |-> ro,
     number_measurements |-> n, mapped |-> mapped, qubit_mapping |-> qm]
GateDefinition(c, n, qs, ps) ==
    [hqslang |-> "GateDefinition", circuit |-> c, name |-> n, qubits |-> qs,
     free_parameters |-> ps]
CallDefinedGate(n, qs, ps) ==
    [hqslang |-> "CallDefinedGate", gate_name |-> n, qubits |-> qs,
     free_parameters |-> ps]

\* control flow: a nested Circuit, repeated or guarded by a classical bit
PragmaLoop(reps, c) == [hqslang |-> "PragmaLoop", repetitions |-> reps, circuit |-> c]
PragmaConditional(creg, i, c) ==
    [hqslang |-> "PragmaConditional", condition_register |-> creg,
     condition_index |-> i, circuit |-> c]
PragmaSleep(qs, t) == [hqslang |-> "PragmaSleep", qubits |-> qs, sleep_time |-> t]
\* noise channels on one qubit: PragmaDamping, PragmaDephasing, PragmaDepolarising
PragmaNoise(h, q, t, r) == [hqslang |-> h, qubit |-> q, gate_time |-> t, rate |-> r]
PragmaDamping(q, t, r) == PragmaNoise("PragmaDamping", q, t, r)
PragmaDephasing(q, t, r) == PragmaNoise("PragmaDephasing", q, t, r)
PragmaDepolarising(q, t, r) == PragmaNoise("PragmaDepolarising", q, t, r)
PragmaBoostNoise(k) == [hqslang |-> "PragmaBoostNoise", noise_coefficient |-> k]
\* requests to a simulator: the Option<Circuit> is << >> when it is None
PragmaGet(h, ro, c) == [hqslang |-> h, readout |-> ro, circuit |-> c]
PragmaGetStateVector(ro, c) == PragmaGet("PragmaGetStateVector", ro, c)
PragmaGetDensityMatrix(ro, c) == PragmaGet("PragmaGetDensityMatrix", ro, c)
PragmaGetOccupationProbability(ro, c) ==
    PragmaGet("PragmaGetOccupationProbability", ro, c)
PragmaSetNumberOfMeasurements(n, ro) ==
    [hqslang |-> "PragmaSetNumberOfMeasurements", number_measurements |-> n,
     readout |-> ro]
PragmaStartDecompositionBlock(qs, d) ==
    [hqslang |-> "PragmaStartDecompositionBlock", qubits |-> qs,
     reordering_dictionary |-> d]
PragmaStopDecompositionBlock(qs) ==
    [hqslang |-> "PragmaStopDecompositionBlock", qubits |-> qs]
PragmaGlobalPhase(phase) == [hqslang |-> "PragmaGlobalPhase", phase |-> phase]

\* Operations that are ignored by backend and do not throw an error
ALLOWED_OPERATIONS ==
    {"PragmaGetDensityMatrix", "PragmaGetOccupationProbability",
     "PragmaGetPauliProduct", "PragmaGetStateVector", "PragmaSleep",
     "PragmaSetNumberOfMeasurements", "PragmaStartDecompositionBlock",
     "PragmaStopDecompositionBlock", "PragmaStopParallelBlock",
     "InputSymbolic", "PragmaGlobalPhase", "GateDefinition"}

\* Operations that are ignored when looking for a QASM definition
NO_DEFINITION_REQUIRED_OPERATIONS ==
    {"SingleQubitGate", "DefinitionFloat", "DefinitionUsize", "DefinitionBit",
     "DefinitionComplex", "PragmaActiveReset", "PragmaConditional",
     "PragmaGlobalPhase", "PragmaRepeatedMeasurement", "MeasureQubit",
     "PragmaLoop", "CallDefinedGate"}

\* ------------------------------------------------------------------ text
NL == [rule |-> "newline"]

\* register[index]; slot = TRUE after the rewrite of replace_me[i] to qb_i
QRef(reg, i) == [reg |-> reg, idx |-> i, slot |-> FALSE]

GateCall(id, params, qubits) ==
    [rule |-> "gate", id |-> id, params |-> params, qubits |-> qubits]

\* Results
Ok(t) == [ok |-> TRUE, text |-> t, err |-> [kind |-> "none", what |-> ""]]
Err(e) == [ok |-> FALSE, text |-> << >>, err |-> e]
\* mutant: the error carries the name of the backend in place of the hqslang
OperationNotInBackendUnnamed(h) == [kind |-> "OperationNotInBackend", what |-> "QASM"]

\* RoqoqoBackendError::OperationNotInBackend { backend: "QASM", hqslang }
OperationNotInBackend(h) == [kind |-> "OperationNotInBackend", what |-> h]
GenericError(m) == [kind |-> "GenericError", what |-> m]
FileAlreadyExists(p) == [kind |-> "FileAlreadyExists", what |-> p]

\* ====================================================== variable_gatherer
\* An expression is the sequence of its maximal runs of characters: a word
\* (a letter followed by letters, digits and '_'), a number (digits and
\* '.'), a run of v spaces, one ASCII symbol, or one character of more than
\* one byte that is neither a letter nor a digit.  No two runs of letters or
\* digits are adjacent, and no expression holds a '#'.
Word(s) == [k |-> "word", s |-> s, v |-> 0]
Num(s, v) == [k |-> "num", s |-> s, v |-> v]
BadNum(s) == [k |-> "badnum", s |-> s, v |-> 0]
Sym(c) == [k |-> "sym", s |-> c, v |-> 0]
Spaces(n) == [k |-> "space", s |-> " ", v |-> n]
Wide(s) == [k |-> "wide", s |-> s, v |-> 0]

\* enum Token; s is the String and v the f64 of the variants that hold one
Token(t, s, v) == [t |-> t, s |-> s, v |-> v]
EndOfString == Token("EndOfString", "", 0)

\* the f64 values: an integer n, or a value this model does not track
IntVal(n) == [int |-> TRUE, n |-> n]
Untracked == [int |-> FALSE, n |-> 0]

\* CalculatorError: the variant, and the function it names if it names one
CalculatorError(kind, fct) == [kind |-> kind, what |-> "", fct |-> fct]
\* CalculatorError::ParsingError { msg }
ParsingError(msg) == [kind |-> "ParsingError", what |-> msg, fct |-> ""]
\* mutant: the message does not say which function was refused
NotSupportedUnnamed(f) ==
    [kind |-> "ParsingError", what |-> "Function is not supported in OpenQASM 3.0.",
     fct |-> ""]

\* ParsingError { msg: "Function <f> is not supported in OpenQASM 3.0." }
NotSupported(f) ==
    [kind |-> "ParsingError", what |-> "Function {} is not supported in OpenQASM 3.0.",
     fct |-> f]

OneArgument ==
    {"sin", "cos", "tan", "acos", "asin", "atan", "exp", "log", "sqrt", "ceil",
     "floor", "sign"}
TwoArguments == {"pow"}
NotInOpenQASM3 ==
    {"abs", "cosh", "sinh", "tanh", "acosh", "asinh", "atanh", "arcosh", "arsinh",
     "artanh", "exp2", "expm1", "log10", "cbrt", "fract", "round", "erf", "tgamma",
     "lgamma", "delta", "theta", "parity", "atan2", "hypot", "max", "min"}

\* Match name of function to number of arguments
function_argument_numbers(input) ==
    IF input \in OneArgument THEN [ok |-> TRUE, n |-> 1, err |-> CalculatorError("none", "")]
    ELSE IF input \in TwoArguments THEN [ok |-> TRUE, n |-> 2, err |-> CalculatorError("none", "")]
    ELSE IF input \in NotInOpenQASM3
         THEN [ok |-> FALSE, n |-> 0, err |-> NotSupported(input)]
    ELSE [ok |-> FALSE, n |-> 0, err |-> CalculatorError("FunctionNotFound", input)]

\* Match name of function with one argument to Rust function, for the
\* functions function_argument_numbers lets through
function_1_argument(input, arg0) ==
    IF ~arg0.int THEN Untracked
    ELSE IF arg0.n = 0
    THEN CASE input \in {"sin", "tan", "asin", "atan", "sqrt", "ceil", "floor"} -> IntVal(0)
           [] input \in {"cos", "exp", "sign"} -> IntVal(1)
           [] OTHER -> Untracked
    ELSE CASE input \in {"ceil", "floor"} -> arg0
           [] input = "sign" -> IntVal(IF arg0.n > 0 THEN 1 ELSE -1)
           [] input = "sqrt" /\ arg0.n = 1 -> IntVal(1)
           [] OTHER -> Untracked

\* f64::powf, tracked for small integers
powf(a, b) ==
    IF a.int /\ b.int /\ b.n >= 0 /\ b.n <= 3 /\ a.n >= -9 /\ a.n <= 9
    THEN IntVal(IF b.n = 0 THEN 1 ELSE a.n ^ b.n)
    ELSE Untracked

\* Match name of function with two arguments to Rust function
function_2_arguments(input, arg0, arg1) == powf(arg0, arg1)

\* the arithmetic of f64 on the values the model tracks
f64_op(op, a, b) ==
    IF ~(a.int /\ b.int) THEN Untracked
    ELSE CASE op = "+" -> IntVal(a.n + b.n)
           [] op = "-" -> IntVal(a.n - b.n)
           [] op = "*" -> IntVal(a.n * b.n)
           [] op = "/" /\ b.n # 0 /\ a.n % b.n = 0 -> IntVal(a.n \div b.n)
           [] OTHER -> Untracked

\* ---- TokenIterator
SymbolToken(c) ==
    CASE c = "+" -> "Plus"
      [] c = "-" -> "Minus"
      [] c = "/" -> "Divide"
      [] c = "^" -> "Power"
      [] c = "(" -> "BracketOpen"
      [] c = ")" -> "BracketClose"
      [] c = "=" -> "Assign"
      [] c = "," -> "Comma"
      [] c = ";" -> "EndOfExpression"
      [] OTHER -> "Unrecognized"

\* cut_current_expression(end + 1): one byte after the word is cut off
cut_one(r) ==
    IF Head(r).k = "space" /\ Head(r).v > 1
    THEN <<Spaces(Head(r).v - 1)>> \o Tail(r)
    ELSE Tail(r)

RECURSIVE SkipSpaces(_)
SkipSpaces(e) ==
    IF e # << >> /\ Head(e).k = "space" THEN SkipSpaces(Tail(e)) ELSE e

\* TokenIterator::next with the str it leaves: none is Option::None, panic a
\* slice that does not end on a char boundary
RECURSIVE next_token_and_str(_)
next_token_and_str(current_expression) ==
    IF current_expression = << >>
    THEN [none |-> TRUE, panic |-> FALSE, token |-> EndOfString, str |-> << >>]
    ELSE LET e == SkipSpaces(current_expression)
             Yield(t, rest) == [none |-> FALSE, panic |-> FALSE, token |-> t, str |-> rest]
         IN IF e = << >> THEN Yield(EndOfString, << >>)
            ELSE LET c == Head(e)
                     rest == Tail(e)
                 IN CASE c.k = "word" ->
                           LET next_token == next_token_and_str(rest)
                           IN IF next_token.panic THEN next_token
                              ELSE IF ~next_token.none /\ next_token.token.t = "Assign"
                              THEN Yield(Token("VariableAssign", c.s, 0), cut_one(rest))
                              ELSE IF ~next_token.none /\ next_token.token.t = "BracketOpen"
                              THEN Yield(Token("Function", c.s, 0), cut_one(rest))
                              ELSE Yield(Token("Variable", c.s, 0), rest)
                      [] c.k = "num" -> Yield(Token("Number", "", c.v), rest)
                      [] c.k = "badnum" -> Yield(Token("Unrecognized", "", 0), rest)
                      [] c.k = "wide" ->
                           [none |-> FALSE, panic |-> TRUE, token |-> EndOfString,
                            str |-> << >>]
                      [] c.s = "*" ->
                           IF rest # << >> /\ Head(rest) = Sym("*")
                           THEN Yield(Token("Power", "", 0), Tail(rest))
                           ELSE Yield(Token("Multiply", "", 0), rest)
                      [] c.s = "!" ->
                           IF rest # << >> /\ Head(rest) = Sym("!")
                           THEN Yield(Token("DoubleFactorial", "", 0), Tail(rest))
                           ELSE Yield(Token("Factorial", "", 0), rest)
                      [] OTHER -> Yield(Token(SymbolToken(c.s), "", 0), rest)

\* ---- MutableCircuitParser
\* the parser: remaining_expression, current_token, the variables of the
\* VariableGatherer it borrows; panicked once a call of next has panicked;
\* exact until a division decides on a value that is not tracked
Parser(rem, tok, names) ==
    [remaining_expression |-> rem, current_token |-> tok, variables |-> names,
     panicked |-> FALSE, exact |-> TRUE]

\* mutant: the name takes the place of the names registered so far
register_variable_alone(p, name) == [p EXCEPT !.variables = {name}]

\* Register variable for CircuitParser
register_variable(p, name) == [p EXCEPT !.variables = @ \cup {name}]

\* the value of a singleton: The({F(x) : x \in {e}}) is F(e), e taken once
The(S) == CHOOSE x \in S : TRUE

\* Get next token via TokenIterator
next_token(p) ==
    The({IF n.panic
         THEN [p EXCEPT !.panicked = TRUE, !.current_token = Token("Unrecognized", "", 0),
                        !.remaining_expression = << >>]
         ELSE IF n.none
         THEN [p EXCEPT !.current_token = EndOfString, !.remaining_expression = << >>]
         ELSE [p EXCEPT !.current_token = n.token, !.remaining_expression = n.str]
         : n \in {next_token_and_str(p.remaining_expression)}})

\* Result<f64, CalculatorError> with the parser as the call leaves it
Value(x, p) == [ok |-> TRUE, err |-> CalculatorError("none", ""), val |-> x, p |-> p]
Failure(e, p) == [ok |-> FALSE, err |-> e, val |-> Untracked, p |-> p]

RECURSIVE evaluate_init(_), evaluate_binary_1(_), binary_1_loop(_, _),
          evaluate_binary_2(_), binary_2_loop(_, _), evaluate_binary_3(_),
          evaluate_unary(_), evaluate(_), function_arguments(_, _, _, _)

\* Initialize the evaluation of an expression
evaluate_init(p) ==
    IF p.current_token.t \in {"EndOfExpression", "EndOfString"}
    THEN Failure(CalculatorError("UnexpectedEndOfExpression", ""), p)
    ELSE evaluate_binary_1(p)

\* Evaluate least preference binary expression (+, -)
evaluate_binary_1(p) ==
    The({IF ~res.ok THEN res ELSE binary_1_loop(res.val, res.p)
         : res \in {evaluate_binary_2(p)}})

binary_1_loop(res, p) ==
    IF p.current_token.t \in {"Plus", "Minus"}
    THEN The({IF ~val.ok THEN val
              ELSE binary_1_loop(f64_op(IF p.current_token.t = "Plus" THEN "+" ELSE "-",
                                        res, val.val),
                                 val.p)
              : val \in {evaluate_binary_2(next_token(p))}})
    ELSE Value(res, p)

\* Evaluate middle preference binary expression (*, /)
evaluate_binary_2(p) ==
    The({IF ~res.ok THEN res ELSE binary_2_loop(res.val, res.p)
         : res \in {evaluate_binary_3(p)}})

binary_2_loop(res, p) ==
    IF p.current_token.t \in {"Multiply", "Divide"}
    THEN The({IF ~val.ok THEN val
              ELSE IF p.current_token.t = "Multiply"
              THEN binary_2_loop(f64_op("*", res, val.val), val.p)
              ELSE IF val.val = IntVal(0)
              THEN Failure(CalculatorError("DivisionByZero", ""), val.p)
              ELSE binary_2_loop(f64_op("/", res, val.val),
                                 IF val.val.int THEN val.p
                                 ELSE [val.p EXCEPT !.exact = FALSE])
              : val \in {evaluate_binary_3(next_token(p))}})
    ELSE Value(res, p)

\* Evaluate least preference binary expression (^, !)
evaluate_binary_3(p) ==
    The({IF ~res.ok THEN res
         ELSE CASE res.p.current_token.t = "DoubleFactorial" ->
                      Failure(CalculatorError("NotImplementedError", "DoubleFactorial"),
                              res.p)
                [] res.p.current_token.t = "Factorial" ->
                      Failure(CalculatorError("NotImplementedError", "Factorial"), res.p)
                [] res.p.current_token.t = "Power" ->
                      The({IF ~exponent.ok THEN exponent
                           ELSE Value(powf(res.val, exponent.val), exponent.p)
                           : exponent \in {evaluate_unary(next_token(res.p))}})
                [] OTHER -> res
         : res \in {evaluate_unary(p)}})

\* Handle any unary + or - signs
evaluate_unary(p) ==
    The({IF ~res.ok THEN res
         ELSE Value(IF p.current_token.t = "Minus"
                    THEN f64_op("-", IntVal(0), res.val) ELSE res.val, res.p)
         : res \in {evaluate(IF p.current_token.t \in {"Minus", "Plus"}
                             THEN next_token(p) ELSE p)}})

\* the arguments of a function: the heap after number_arguments arguments
function_arguments(number_arguments, argument_number, heap, p) ==
    IF argument_number = number_arguments
    THEN [ok |-> TRUE, err |-> CalculatorError("none", ""), heap |-> heap, p |-> p]
    ELSE The({IF ~arg.ok
              THEN [ok |-> FALSE, err |-> arg.err, heap |-> heap, p |-> arg.p]
              ELSE IF argument_number < number_arguments - 1
                      /\ arg.p.current_token.t # "Comma"
              THEN [ok |-> FALSE,
                    err |-> ParsingError("expected comma in function arguments"),
                    heap |-> heap, p |-> arg.p]
              ELSE function_arguments(number_arguments, argument_number + 1,
                                      Append(heap, arg.val),
                                      IF argument_number < number_arguments - 1
                                      THEN next_token(arg.p) ELSE arg.p)
              : arg \in {evaluate_init(p)}})

\* Handle numbers, variables, functions and parentheses
evaluate(p) ==
    CASE p.current_token.t = "BracketOpen" ->
           The({IF ~res_init.ok THEN res_init
                ELSE IF res_init.p.current_token.t # "BracketClose"
                THEN Failure(ParsingError("Expected Braket close"), res_init.p)
                ELSE Value(res_init.val, next_token(res_init.p))
                : res_init \in {evaluate_init(next_token(p))}})
      [] p.current_token.t = "Number" ->
           Value(IntVal(p.current_token.v), next_token(p))
      [] p.current_token.t = "Variable" ->
           The({Value(IntVal(0),
                      IF q.panicked THEN q ELSE register_variable(q, p.current_token.s))
                : q \in {next_token(p)}})
      [] p.current_token.t = "Function" ->
           The({IF ~number_arguments.ok
                THEN Failure(number_arguments.err, next_token(p))
                ELSE The({IF ~args.ok THEN Failure(args.err, args.p)
                          ELSE IF args.p.current_token.t # "BracketClose"
                          THEN Failure(ParsingError("Expected braket close."), args.p)
                          ELSE Value(IF number_arguments.n = 1
                                     THEN function_1_argument(p.current_token.s,
                                                              args.heap[1])
                                     ELSE function_2_arguments(p.current_token.s,
                                                               args.heap[1], args.heap[2]),
                                     next_token(args.p))
                          : args \in {function_arguments(number_arguments.n, 0, << >>,
                                                         next_token(p))}})
                : number_arguments \in {function_argument_numbers(p.current_token.s)}})
      [] OTHER -> Failure(ParsingError("Bad_Position"), p)

\* the inner loop of evaluate_all_tokens: the EndOfExpression tokens are skipped
RECURSIVE skip_end_of_expression(_)
skip_end_of_expression(p) ==
    IF p.current_token.t = "EndOfExpression"
    THEN skip_end_of_expression(next_token(p))
    ELSE p

\* Evaluate all Tokens to real value, None or return error
RECURSIVE evaluate_all_tokens(_, _)
evaluate_all_tokens(some, p) ==
    IF p.current_token.t = "EndOfString"
    THEN [ok |-> TRUE, err |-> CalculatorError("none", ""), some |-> some, p |-> p]
    ELSE The({IF ~current_value.ok
              THEN [ok |-> FALSE, err |-> current_value.err, some |-> FALSE,
                    p |-> current_value.p]
              ELSE evaluate_all_tokens(TRUE, skip_end_of_expression(current_value.p))
              : current_value \in {evaluate_init(p)}})

\* VariableGatherer::parse(expression) on a gatherer that holds names: what
\* the call returns ("ok", "err" or "panic"), and the variables it leaves
parse(expression, names) ==
    The({IF first.none \/ first.panic
         THEN [outcome |-> "panic", err |-> CalculatorError("none", ""),
               variables |-> names, exact |-> TRUE]
         ELSE The({[outcome |-> CASE end_value.p.panicked -> "panic"
                                  [] ~end_value.ok \/ ~end_value.some -> "err"
                                  [] OTHER -> "ok",
                    err |-> CASE end_value.p.panicked -> CalculatorError("none", "")
                              [] ~end_value.ok -> end_value.err
                              [] ~end_value.some ->
                                    CalculatorError("NoValueReturnedParsing", "")
                              [] OTHER -> CalculatorError("none", ""),
                    variables |-> end_value.p.variables,
                    exact |-> end_value.p.exact]
                   : end_value \in {evaluate_all_tokens(FALSE,
                                        Parser(first.str, first.token, names))}})
         : first \in {next_token_and_str(expression)}})

\* ------------------------------------------------------- call_operation
\* mutant: every operation without an arm is dropped silently
AllowedOrEmpty(op) == Ok(<< >>)

AllowedOrError(op) ==
    IF op.hqslang \in ALLOWED_OPERATIONS
    THEN Ok(<< >>)
    ELSE Err(OperationNotInBackend(op.hqslang))

RECURSIVE MeasureLines(_, _, _)
MeasureLines(qm, reg, ro) ==
    IF qm = << >> THEN << >>
    ELSE << [rule |-> "measurement", qubit |-> QRef(reg, Head(qm)[1]),
             readout |-> ro, readout_index |-> Head(qm)[2]], NL >>
         \o MeasureLines(Tail(qm), reg, ro)

\* mutant: every string is pushed twice
RECURSIVE ConcatTwice(_)
ConcatTwice(texts) ==
    IF texts = << >> THEN << >>
    ELSE Head(texts) \o Head(texts) \o ConcatTwice(Tail(texts))

\* the strings of a Vec<String> pushed one after the other
RECURSIVE Concat(_)
Concat(texts) == IF texts = << >> THEN << >> ELSE Head(texts) \o Concat(Tail(texts))

\* the strings of a Vec<String>, each followed by '\n'
RECURSIVE Lines(_)
Lines(texts) ==
    IF texts = << >> THEN << >> ELSE Head(texts) \o <<NL>> \o Lines(Tail(texts))

\* `*x as usize`: the integer part of a float in thousandths, 0 if negative
as_usize(x) == IF x.v < 0 THEN 0 ELSE x.v \div 1000

\* mutant: the error names neither the expression nor the target
LoopErrorUnnamed(x, v) ==
    [kind |-> "GenericError",
     what |-> "Used PragmaLoop with a string for repetitions and a qasm-version that is incompatible",
     expression |-> "", version |-> ""]

\* the error of a PragmaLoop whose repetitions are a string
LoopError(x, v) ==
    [kind |-> "GenericError",
     what |-> "Used PragmaLoop with a string for repetitions and a qasm-version that is incompatible",
     expression |-> x.s, version |-> v]

NestedConditionalError ==
    GenericError("For OpenQASM 2.0 we cannot have nested PragmaConditional operations")

RECURSIVE call_operation(_, _, _)

\* mutant: every string is pushed in front of the earlier ones
RECURSIVE call_circuit_reversed(_, _, _)
call_circuit_reversed(c, qubit_register_name, qasm_version) ==
    IF c = << >> THEN [ok |-> TRUE, err |-> Ok(<< >>).err, texts |-> << >>]
    ELSE The({IF ~r.ok THEN [ok |-> FALSE, err |-> r.err, texts |-> << >>]
              ELSE The({IF ~rest.ok THEN rest
                        ELSE [ok |-> TRUE, err |-> rest.err,
                              texts |-> rest.texts \o <<r.text>>]
                        : rest \in {call_circuit_reversed(Tail(c), qubit_register_name,
                                                          qasm_version)}})
              : r \in {call_operation(Head(c), qubit_register_name, qasm_version)}})

\* Translate the qoqo circuit into QASM ouput: one string per operation, or
\* the error of the first operation that fails
RECURSIVE call_circuit(_, _, _)
call_circuit(c, qubit_register_name, qasm_version) ==
    IF c = << >> THEN [ok |-> TRUE, err |-> Ok(<< >>).err, texts |-> << >>]
    ELSE The({IF ~r.ok THEN [ok |-> FALSE, err |-> r.err, texts |-> << >>]
              ELSE The({IF ~rest.ok THEN rest
                        ELSE [ok |-> TRUE, err |-> rest.err,
                              texts |-> <<r.text>> \o rest.texts]
                        : rest \in {call_circuit(Tail(c), qubit_register_name,
                                                 qasm_version)}})
              : r \in {call_operation(Head(c), qubit_register_name, qasm_version)}})

\* PragmaConditional under 2.0: `while let Some(int_op) = ite.next()`, one
\* guard in front of the string of every nested operation
RECURSIVE conditional_lines(_, _, _, _)
conditional_lines(op, c, qubit_register_name, qasm_version) ==
    IF c = << >> THEN Ok(<< >>)
    ELSE IF Head(c).hqslang = "PragmaConditional" THEN Err(NestedConditionalError)
    ELSE The({IF ~r.ok THEN r
              ELSE The({IF ~rest.ok THEN rest
                        ELSE Ok(<<[rule |-> "if", register |-> op.condition_register,
                                   index |-> op.condition_index]>>
                                \o r.text
                                \o (IF Tail(c) = << >> THEN << >> ELSE <<NL>>)
                                \o rest.text)
                        : rest \in {conditional_lines(op, Tail(c), qubit_register_name,
                                                      qasm_version)}})
              : r \in {call_operation(Head(c), qubit_register_name, qasm_version)}})

\* mutant: the nested circuit is translated once, whatever the count
unrolled_loop_once(n, c, qubit_register_name, qasm_version) ==
    The({IF ~cc.ok THEN Err(cc.err) ELSE Ok(Lines(cc.texts))
         : cc \in {call_circuit(c, qubit_register_name, qasm_version)}})

\* PragmaLoop outside 3.0 Roqoqo and 3.0 Vanilla: `for _ in 0..(*x as usize)`,
\* the nested circuit is translated again at every turn
RECURSIVE unrolled_loop(_, _, _, _)
unrolled_loop(n, c, qubit_register_name, qasm_version) ==
    IF n = 0 THEN Ok(<< >>)
    ELSE The({IF ~cc.ok THEN Err(cc.err)
              ELSE The({IF ~rest.ok THEN rest ELSE Ok(Lines(cc.texts) \o rest.text)
                        : rest \in {unrolled_loop(n - 1, c, qubit_register_name,
                                                  qasm_version)}})
              : cc \in {call_circuit(c, qubit_register_name, qasm_version)}})

\* "pragmasleep(t) q[i];" for every qubit, '\n' between two of them
RECURSIVE SleepLines(_, _, _)
SleepLines(qs, t, reg) ==
    IF qs = << >> THEN << >>
    ELSE <<GateCall("pragmasleep", <<ParamText(t)>>, <<QRef(reg, Head(qs))>>)>>
         \o (IF Tail(qs) = << >> THEN << >> ELSE <<NL>>)
         \o SleepLines(Tail(qs), t, reg)

\* Translates a qoqo operation to QASM
call_operation(operation, qubit_register_name, qasm_version) ==
    LET op == operation
        reg == qubit_register_name
        h == operation.hqslang
    IN CASE h = "RotateX" ->
              Ok(<<GateCall("rx", <<ParamText(op.theta)>>, <<QRef(reg, op.qubit)>>)>>)
         [] h = "RotateZ" ->
              Ok(<<GateCall("rz", <<ParamText(op.theta)>>, <<QRef(reg, op.qubit)>>)>>)
         [] h = "PauliX" -> Ok(<<GateCall("x", << >>, <<QRef(reg, op.qubit)>>)>>)
         [] h = "Hadamard" -> Ok(<<GateCall("h", << >>, <<QRef(reg, op.qubit)>>)>>)
         [] h = "Identity" -> Ok(<<GateCall("id", << >>, <<QRef(reg, op.qubit)>>)>>)
         [] h = "CNOT" ->
              Ok(<<GateCall(IF qasm_version = V3Braket THEN "cnot" ELSE "cx", << >>,
                            <<QRef(reg, op.control), QRef(reg, op.target)>>)>>)
         [] h = "MolmerSorensenXX" ->
              Ok(<<GateCall(IF qasm_version = V3Braket THEN "xx" ELSE "rxx",
                            <<ExprText("pi/2")>>,
                            <<QRef(reg, op.control), QRef(reg, op.target)>>)>>)
         [] h = "VariableMSXX" ->
              Ok(<<GateCall(IF qasm_version = V3Braket THEN "xx" ELSE "rxx",
                            <<ParamText(op.theta)>>,
                            <<QRef(reg, op.control), QRef(reg, op.target)>>)>>)
         [] h \in {"GPi", "GPi2"} ->
              IF qasm_version = V3Braket
              THEN Ok(<<GateCall(IF h = "GPi" THEN "gpi" ELSE "gpi2",
                                 <<ParamText(op.theta)>>, <<QRef(reg, op.qubit)>>)>>)
              ELSE AllowedOrError(op)
         [] h = "PragmaActiveReset" ->
              Ok(<<[rule |-> "reset", qubit |-> QRef(reg, op.qubit)]>>)
         [] h = "PragmaStopParallelBlock" ->
              IF qasm_version = V3Roqoqo
              THEN Ok(<<[rule |-> "pragma", hqslang |-> h, pragma_qubits |-> op.qubits]>>)
              ELSE AllowedOrError(op)
         [] h = "PragmaRepeatedMeasurement" ->
              Ok((IF op.mapped
                  THEN MeasureLines(op.qubit_mapping, reg, op.readout)
                  ELSE <<[rule |-> "measure_all", reg |-> reg, readout |-> op.readout]>>)
                 \o (IF qasm_version = V3Roqoqo
                     THEN <<NL, [rule |-> "pragma",
                                 hqslang |-> "PragmaSetNumberOfMeasurements",
                                 number_measurements |-> op.number_measurements,
                                 readout |-> op.readout]>>
                     ELSE << >>))
         [] h = "MeasureQubit" ->
              Ok(<<[rule |-> "measurement", qubit |-> QRef(reg, op.qubit),
                    readout |-> op.readout, readout_index |-> op.readout_index]>>)
         [] h \in {"DefinitionFloat", "DefinitionBit"} ->
              LET ty == IF h = "DefinitionBit" THEN "bit" ELSE "float"
              IN IF qasm_version = V2point0
                 THEN Ok(<<[rule |-> "c_decl", name |-> op.name, length |-> op.length]>>)
                 ELSE Ok(<<[rule |-> "typed_decl", type |-> ty, length |-> op.length,
                            name |-> op.name,
                            output |-> (qasm_version # V3Braket /\ op.is_output)]>>)
         [] h = "InputSymbolic" ->
              IF IsV3(qasm_version)
              THEN Ok(<<[rule |-> "input", type |-> "float", name |-> op.name]>>)
              ELSE AllowedOrError(op)
         [] h = "InputBit" ->
              IF IsV3(qasm_version)
              THEN Ok(<<[rule |-> "assign", name |-> op.name, index |-> op.index,
                         value |-> op.value]>>)
              ELSE AllowedOrError(op)
         [] h = "CallDefinedGate" ->
              Ok(<<GateCall(op.gate_name,
                            [i \in 1..Len(op.free_parameters) |->
                                ParamText(op.free_parameters[i])],
                            [i \in 1..Len(op.qubits) |-> QRef(reg, op.qubits[i])])>>)
         [] h = "PragmaConditional" ->
              IF qasm_version = V2point0
              THEN conditional_lines(op, op.circuit, reg, qasm_version)
              ELSE The({IF ~cc.ok THEN Err(cc.err)
                        ELSE Ok(<<[rule |-> "if_block",
                                   register |-> op.condition_register,
                                   index |-> op.condition_index], NL>>
                                \o Concat(cc.texts)
                                \o <<[rule |-> "block_end"]>>)
                        : cc \in {call_circuit(op.circuit, reg, qasm_version)}})
         [] h = "PragmaLoop" ->
              CASE qasm_version = V3Roqoqo ->
                     Ok(<<[rule |-> "pragma", hqslang |-> h,
                           repetitions |-> ParamText(op.repetitions),
                           nested |-> op.circuit]>>)
                [] qasm_version = V3Vanilla ->
                     IF op.repetitions.float
                     THEN The({IF ~cc.ok THEN Err(cc.err)
                               ELSE Ok(<<[rule |-> "for", count |-> op.repetitions.v],
                                         NL>>
                                       \o Concat(cc.texts)
                                       \o <<NL, [rule |-> "block_end"]>>)
                               : cc \in {call_circuit(op.circuit, reg, qasm_version)}})
                     ELSE Err(LoopError(op.repetitions, qasm_version))
                [] OTHER ->
                     IF op.repetitions.float
                     THEN unrolled_loop(as_usize(op.repetitions), op.circuit, reg,
                                        qasm_version)
                     ELSE Err(LoopError(op.repetitions, qasm_version))
         [] h = "PragmaSleep" ->
              CASE qasm_version = V3Roqoqo ->
                     Ok(<<[rule |-> "pragma", hqslang |-> h, pragma_qubits |-> op.qubits,
                           sleep_time |-> ParamText(op.sleep_time)]>>)
                [] qasm_version = V2point0 ->
                     Ok(SleepLines(op.qubits, op.sleep_time, reg))
                [] OTHER -> AllowedOrError(op)
         [] h \in {"PragmaDamping", "PragmaDephasing", "PragmaDepolarising"} ->
              IF qasm_version = V3Roqoqo
              THEN Ok(<<[rule |-> "pragma", hqslang |-> h, qubit |-> op.qubit,
                         gate_time |-> ParamText(op.gate_time),
                         rate |-> ParamText(op.rate)]>>)
              ELSE AllowedOrError(op)
         [] h = "PragmaBoostNoise" ->
              IF qasm_version = V3Roqoqo
              THEN Ok(<<[rule |-> "pragma", hqslang |-> h,
                         noise_coefficient |-> ParamText(op.noise_coefficient)]>>)
              ELSE AllowedOrError(op)
         [] h \in {"PragmaGetStateVector", "PragmaGetDensityMatrix",
                   "PragmaGetOccupationProbability"} ->
              IF qasm_version = V3Roqoqo
              THEN Ok(<<[rule |-> "pragma", hqslang |-> h, readout |-> op.readout,
                         nested |-> op.circuit]>>)
              ELSE AllowedOrError(op)
         [] h = "PragmaSetNumberOfMeasurements" ->
              IF qasm_version = V3Roqoqo
              THEN Ok(<<[rule |-> "pragma", hqslang |-> h,
                         number_measurements |-> op.number_measurements,
                         readout |-> op.readout]>>)
              ELSE AllowedOrError(op)
         [] h = "PragmaStartDecompositionBlock" ->
              IF qasm_version = V3Roqoqo
              THEN Ok(<<[rule |-> "pragma", hqslang |-> h, pragma_qubits |-> op.qubits,
                         reordering_dictionary |-> op.reordering_dictionary]>>)
              ELSE AllowedOrError(op)
         [] h = "PragmaStopDecompositionBlock" ->
              IF qasm_version = V3Roqoqo
              THEN Ok(<<[rule |-> "pragma", hqslang |-> h, pragma_qubits |-> op.qubits]>>)
              ELSE AllowedOrError(op)
         [] h = "PragmaGlobalPhase" ->
              IF qasm_version \in {V3Roqoqo, V3Vanilla}
              THEN Ok(<<[rule |-> "gphase", phase |-> ParamText(op.phase)]>>)
              ELSE AllowedOrError(op)
         [] OTHER -> AllowedOrError(op)

\* ------------------------------------------------------- gate definitions
\* A formal qubit of a definition: a bare identifier (reg), or qb_<idx>.
Slot(a) == [reg |-> a, idx |-> 0, slot |-> TRUE]
QbSlot(i) == [reg |-> "qb", idx |-> i, slot |-> TRUE]

\* One gate call of a definition body: id(args) on;
B(id, args, on) ==
    GateCall(id, [i \in 1..Len(args) |-> ExprText(args[i])],
             [i \in 1..Len(on) |-> Slot(on[i])])

GateDef(id, formals, slots, body) ==
    [rule |-> "gate_def", id |-> id, formals |-> formals, slots |-> slots,
     body |-> body]

BuiltinDef(id, formals, slots, body) ==
    GateDef(id, formals, [i \in 1..Len(slots) |-> Slot(slots[i])], body)

gate_u3 == BuiltinDef("u3", <<"theta", "phi", "lambda">>, <<"q">>,
                      <<B("U", <<"theta", "phi", "lambda">>, <<"q">>)>>)
gate_u2 == BuiltinDef("u2", <<"phi", "lambda">>, <<"q">>,
                      <<B("U", <<"pi/2", "phi", "lambda">>, <<"q">>)>>)
gate_u1 == BuiltinDef("u1", <<"lambda">>, <<"q">>,
                      <<B("U", <<"0", "0", "lambda">>, <<"q">>)>>)
gate_rxx ==
    BuiltinDef("rxx", <<"theta">>, <<"a", "b">>,
               <<B("u3", <<"pi/2", "theta", "0">>, <<"a">>),
                 B("u2", <<"0", "pi">>, <<"b">>),
                 B("cx", << >>, <<"a", "b">>),
                 B("u1", <<"-theta">>, <<"b">>),
                 B("cx", << >>, <<"a", "b">>),
                 B("u2", <<"0", "pi">>, <<"b">>),
                 B("u2", <<"-pi", "pi-theta">>, <<"a">>)>>)

\* replace("replace_me[q]", "qb_q") for one declared qubit q, on one QRef
ReplaceRef(r, q) ==
    IF r.reg = "replace_me" /\ ~r.slot /\ r.idx = q THEN QbSlot(q) ELSE r

RECURSIVE ReplaceRefAll(_, _)
ReplaceRefAll(r, qs) ==
    IF qs = << >> THEN r ELSE ReplaceRefAll(ReplaceRef(r, Head(qs)), Tail(qs))

\* the rewrite of every replace_me[q], q a declared qubit, in one token
ReplaceToken(t, qs) ==
    CASE t.rule = "gate" ->
           [t EXCEPT !.qubits = [i \in 1..Len(t.qubits) |-> ReplaceRefAll(t.qubits[i], qs)]]
      [] t.rule \in {"measurement", "reset"} ->
           [t EXCEPT !.qubit = ReplaceRefAll(t.qubit, qs)]
      [] OTHER -> t

\* The body lines of a GateDefinition: "    " + call_operation(op) + "\n"
\* for every operation, up to the first error.
RECURSIVE DefinitionBody(_, _)
DefinitionBody(c, qasm_version) ==
    IF c = << >> THEN Ok(<< >>)
    ELSE The({IF ~r.ok THEN r
              ELSE The({IF ~rest.ok THEN rest ELSE Ok(r.text \o <<NL>> \o rest.text)
                        : rest \in {DefinitionBody(Tail(c), qasm_version)}})
              : r \in {call_operation(Head(c), "replace_me", qasm_version)}})

\* Outputs the QASM gate definition of many qoqo operations
gate_definition(operation, qasm_version) ==
    LET h == operation.hqslang
    IN CASE h = "RotateX" ->
              Ok(<<BuiltinDef("rx", <<"theta">>, <<"a">>,
                              <<B("u3", <<"theta", "-pi/2", "pi/2">>, <<"a">>)>>)>>)
         [] h = "RotateY" ->
              Ok(<<BuiltinDef("ry", <<"theta">>, <<"a">>,
                              <<B("u3", <<"theta", "0", "0">>, <<"a">>)>>)>>)
         [] h = "RotateZ" ->
              Ok(<<BuiltinDef("rz", <<"phi">>, <<"a">>,
                              <<B("u1", <<"phi">>, <<"a">>)>>)>>)
         [] h = "PauliX" ->
              Ok(<<BuiltinDef("x", << >>, <<"a">>,
                              <<B("u3", <<"pi", "0", "pi">>, <<"a">>)>>)>>)
         [] h = "Hadamard" ->
              Ok(<<BuiltinDef("h", << >>, <<"a">>,
                              <<B("u2", <<"0", "pi">>, <<"a">>)>>)>>)
         [] h = "CNOT" ->
              Ok(<<BuiltinDef("cx", << >>, <<"c", "t">>,
                              <<B(IF qasm_version = V2point0 THEN "CX" ELSE "ctrl @ x",
                                  << >>, <<"c", "t">>)>>)>>)
         [] h = "Identity" ->
              Ok(<<BuiltinDef("id", << >>, <<"a">>,
                              <<B("U", <<"0", "0", "0">>, <<"a">>)>>)>>)
         [] h \in {"MolmerSorensenXX", "VariableMSXX"} -> Ok(<<gate_rxx>>)
         [] h = "GPi" ->
              IF qasm_version = V3Braket
              THEN Ok(<<BuiltinDef("gpi", <<"theta">>, <<"a">>,
                                   <<B("u3", <<"pi", "-pi/2", "pi/2">>, <<"a">>),
                                     B("u1", <<"2*theta">>, <<"a">>),
                                     B("gphase", <<"pi/2">>, << >>)>>)>>)
              ELSE Err(OperationNotInBackend(h))
         [] h = "GPi2" ->
              IF qasm_version = V3Braket
              THEN Ok(<<BuiltinDef("gpi2", <<"theta">>, <<"a">>,
                                   <<B("u1", <<"-theta">>, <<"a">>),
                                     B("u3", <<"pi/2", "-pi/2", "pi/2">>, <<"a">>),
                                     B("u1", <<"theta">>, <<"a">>)>>)>>)
              ELSE Err(OperationNotInBackend(h))
         [] h = "PragmaSleep" ->
              Ok(<<[rule |-> "opaque", id |-> "pragmasleep", formals |-> <<"param">>,
                    slots |-> <<Slot("a")>>]>>)
         [] h = "GateDefinition" ->
              The({IF ~body.ok THEN body
                   ELSE Ok(<<GateDef(operation.name, operation.free_parameters,
                                     [i \in 1..Len(operation.qubits) |->
                                         QbSlot(operation.qubits[i])],
                                     [i \in 1..Len(body.text) |->
                                         ReplaceToken(body.text[i], operation.qubits)])>>)
                   : body \in {DefinitionBody(operation.circuit, qasm_version)}})
         [] OTHER ->
              IF h \in NO_DEFINITION_REQUIRED_OPERATIONS \/ h \in ALLOWED_OPERATIONS
              THEN Ok(<< >>)
              ELSE Err(OperationNotInBackend(h))

\* ------------------------------------------------------ involved qubits
\* Operation::involved_qubits: Set(qubits), All or None
InvSet(qs) == [kind |-> "Set", qubits |-> qs]
involved_qubits(op) ==
    LET h == op.hqslang
    IN CASE h \in {"RotateX", "RotateZ", "PauliX", "Hadamard", "Identity", "GPi",
                   "GPi2", "MeasureQubit", "PragmaActiveReset"} -> InvSet({op.qubit})
         [] h \in {"CNOT", "MolmerSorensenXX", "VariableMSXX", "Bogoliubov"} ->
              InvSet({op.control, op.target})
         [] h \in {"PragmaStopParallelBlock", "CallDefinedGate"} ->
              InvSet({op.qubits[i] : i \in 1..Len(op.qubits)})
         [] h = "PragmaRepeatedMeasurement" -> [kind |-> "All", qubits |-> {}]
         [] OTHER -> [kind |-> "None", qubits |-> {}]

SetMax(S) == CHOOSE m \in S : \A x \in S : x <= m
Max2(a, b) == IF a >= b THEN a ELSE b

\* ---------------------------------------------------------------- inputs
Ops ==
    {RotateX(0, CFloat(HalfPiMilli)), RotateZ(2, CStr("theta")),
     PauliX(0), PauliX(1), CNOT(0, 1),
     MolmerSorensenXX(0, 1), VariableMSXX(0, 2, CFloat(500)),
     MeasureQubit(0, "ro", 0), DefinitionBit("ro", 2, FALSE),
     PragmaRepeatedMeasurement("ro", 20, FALSE, << >>),
     PragmaRepeatedMeasurement("ro", 20, TRUE, <<(<<0, 1>>), (<<1, 0>>)>>),
     PragmaRepeatedMeasurement("ro", 20, TRUE, <<(<<1, 0>>), (<<0, 1>>)>>),
     GateDefinition(<<PauliX(0), CNOT(0, 1)>>, "g", <<0, 1>>, << >>),
     CallDefinedGate("g", <<0, 1>>, << >>),
     InputSymbolic("theta"), InputBit("ro", 0, TRUE),
     PragmaStopParallelBlock(<<0, 1>>),
     Bogoliubov(0, 1), GPi(0, CFloat(PiMilli)), GPi2(1, CFloat(PiMilli))}

RECURSIVE SeqsUpTo(_, _)
SeqsUpTo(S, n) ==
    IF n = 0 THEN {<< >>}
    ELSE LET shorter == SeqsUpTo(S, n - 1)
         IN shorter \cup {Append(c, o) : c \in shorter, o \in S}

Circuits == SeqsUpTo(Ops, MaxLen)

\* ----------------------------------------------------------------- state
VARIABLES
    qubit_register_name,      \* Backend.qubit_register_name
    qasm_version,             \* Backend.qasm_version
    circuit,                  \* the Circuit handed to the running call
    call,                     \* the running call: entry point and arguments
    pc,                       \* "idle", or "loop": inside `for op in circuit`
    idx,                      \* position of the loop in the circuit
    definitions,              \* local String definitions
    data,                     \* local String data
    number_qubits_required,   \* local usize
    already_seen_definitions, \* local Vec<String>
    emitted,                  \* history: definitions pushed in the loop
    results,                  \* history: what the finished calls returned
    fs,                       \* the file at the output path
    file_log,                 \* history: the finished calls to a file
    parsed,                   \* what string_to_circuit returned last
    called,                   \* the last direct call of call_operation
    variables,                \* VariableGatherer.variables
    parse_log                 \* history: the calls of VariableGatherer.parse

vars == <<qubit_register_name, qasm_version, circuit, call, pc, idx, definitions,
          data, number_qubits_required, already_seen_definitions, emitted,
          results, fs, file_log, parsed, called, variables, parse_log>>

locals == <<definitions, data, number_qubits_required, already_seen_definitions,
            emitted>>

NoFile == [exists |-> FALSE, content |-> << >>]
File(t) == [exists |-> TRUE, content |-> t]
NoCall == [entry |-> "none", overwrite |-> FALSE, filename |-> "", before |-> NoFile]
NotParsed == [done |-> FALSE, ok |-> FALSE, panic |-> FALSE, circuit |-> << >>]
NotCalled == [done |-> FALSE, operation |-> [hqslang |-> "None"],
              result |-> Ok(<< >>)]
\* what the translation to a string, to a file and back leaves alone
gatherer == <<called, variables, parse_log>>

\* mutant: Version 2.0 includes the standard library after the header line
HeaderWithInclude(v) ==
    IF v = V2point0
    THEN <<[rule |-> "version", version |-> "2.0"], NL,
           [rule |-> "include", file |-> "qelib1.inc"], NL, NL>>
    ELSE <<[rule |-> "version", version |-> "3.0"], NL, NL>>

\* "OPENQASM 2.0;\n\n" or "OPENQASM 3.0;\n\n"
Header(v) ==
    <<[rule |-> "version", version |-> IF v = V2point0 THEN "2.0" ELSE "3.0"], NL, NL>>

\* the seen-list a call starts from
InitialSeen == <<"RotateX", "RotateY", "RotateZ", "CNOT">>

\* the definitions a call starts from: u3, u2, u1, rx, ry, rz, cx
Preamble(v) ==
    <<gate_u3, NL, gate_u2, NL, gate_u1, NL>>
    \o gate_definition(RotateX(0, CFloat(0)), v).text \o <<NL>>
    \o gate_definition([hqslang |-> "RotateY"], v).text \o <<NL>>
    \o gate_definition(RotateZ(0, CFloat(0)), v).text \o <<NL>>
    \o gate_definition(CNOT(0, 1), v).text \o <<NL>>

Contains(seq, x) == \E i \in 1..Len(seq) : seq[i] = x

\* mutant: the running maximum is dropped, the last operation decides
qubits_required_last(n, op) ==
    LET inv == involved_qubits(op)
    IN IF inv.kind = "Set"
       THEN IF inv.qubits = {} THEN 0 ELSE SetMax(inv.qubits)
       ELSE n

\* number_qubits_required.max(involved_qubits.iter().max())
qubits_required(n, op) ==
    LET inv == involved_qubits(op)
    IN IF inv.kind = "Set"
       THEN Max2(n, IF inv.qubits = {} THEN 0 ELSE SetMax(inv.qubits))
       ELSE n

\* mutant: the seen-list is not consulted
definition_step_no_dedup(op, seen, defs, v) ==
    The({[ok |-> d.ok, err |-> d.err, seen |-> Append(seen, op.hqslang),
          pushed |-> d.ok /\ d.text # << >>,
          definitions |-> IF d.ok
                          THEN defs \o d.text
                               \o (IF defs \o d.text # << >> THEN <<NL>> ELSE << >>)
                          ELSE defs]
         : d \in {gate_definition(op, v)}})

\* the definition part of one turn of the loop
definition_step(op, seen, defs, v) ==
    IF ~Contains(seen, op.hqslang)
    THEN The({[ok |-> d.ok, err |-> d.err, seen |-> Append(seen, op.hqslang),
               pushed |-> d.ok /\ d.text # << >>,
               definitions |-> IF d.ok
                               THEN defs \o d.text
                                    \o (IF defs \o d.text # << >> THEN <<NL>> ELSE << >>)
                               ELSE defs]
              : d \in {gate_definition(op, v)}})
    ELSE [ok |-> TRUE, err |-> Ok(<< >>).err, seen |-> seen, pushed |-> FALSE,
          definitions |-> defs]

\* mutant: the statement is put in front of data
data_step_prepend(op, d, reg, v) ==
    The({[ok |-> r.ok, err |-> r.err,
          data |-> IF r.ok
                   THEN r.text \o d \o (IF r.text \o d # << >> THEN <<NL>> ELSE << >>)
                   ELSE d]
         : r \in {call_operation(op, reg, v)}})

\* the data part of one turn of the loop
data_step(op, d, reg, v) ==
    The({[ok |-> r.ok, err |-> r.err,
          data |-> IF r.ok
                   THEN d \o r.text \o (IF d \o r.text # << >> THEN <<NL>> ELSE << >>)
                   ELSE d]
         : r \in {call_operation(op, reg, v)}})

\* "qreg name[n];\n" or "qubit[n] name;\n"
register_declaration(reg, n, v) ==
    <<[rule |-> "q_decl", form |-> IF v = V2point0 THEN "qreg" ELSE "qubit",
       name |-> reg, size |-> n + 1], NL>>

\* the String the call returns
qasm_string(v, defs, reg, n, d) ==
    Header(v) \o defs \o register_declaration(reg, n, v) \o d

Init ==
    /\ qubit_register_name = "q"
    /\ qasm_version \in QasmVersion
    /\ circuit \in Circuits
    /\ call = NoCall
    /\ pc = "idle"
    /\ idx = 0
    /\ definitions = << >>
    /\ data = << >>
    /\ number_qubits_required = 0
    /\ already_seen_definitions = << >>
    /\ emitted = << >>
    /\ results = << >>
    /\ fs = NoFile
    /\ file_log = << >>
    /\ parsed = NotParsed
    /\ called = NotCalled
    /\ variables = {}
    /\ parse_log = << >>

\* mutant: the seen-list outlives the call
EnterStale ==
    /\ pc' = "loop"
    /\ idx' = 1
    /\ definitions' = Preamble(qasm_version)
    /\ data' = << >>
    /\ number_qubits_required' = 0
    /\ already_seen_definitions' =
          IF already_seen_definitions = << >> THEN InitialSeen
          ELSE already_seen_definitions
    /\ emitted' = << >>

\* the locals of a call, as the call sets them up before the loop
Enter ==
    /\ pc' = "loop"
    /\ idx' = 1
    /\ definitions' = Preamble(qasm_version)
    /\ data' = << >>
    /\ number_qubits_required' = 0
    /\ already_seen_definitions' = InitialSeen
    /\ emitted' = << >>

\* circuit_to_qasm_str(circuit) is called
StartCall ==
    /\ pc = "idle"
    /\ Len(results) < MaxCalls
    /\ call' = [NoCall EXCEPT !.entry = "str"]
    /\ Enter
    /\ UNCHANGED <<qubit_register_name, qasm_version, circuit, results, fs,
                   file_log, parsed, gatherer>>

\* what the call returns to its caller when the translation ends with r
Return(r) ==
    /\ pc' = "idle"
    /\ results' = Append(results, r)
    /\ IF call.entry = "file"
       THEN file_log' = Append(file_log,
                [translated |-> r, returned |-> r, overwrite |-> call.overwrite,
                 before |-> call.before, after |-> fs])
       ELSE file_log' = file_log

\* one turn of `for op in circuit`
StepOp ==
    /\ pc = "loop"
    /\ idx <= Len(circuit)
    /\ \E op \in {circuit[idx]} :
       \E ds \in {definition_step(op, already_seen_definitions, definitions,
                                  qasm_version)},
          cs \in {data_step(op, data, qubit_register_name, qasm_version)} :
          /\ number_qubits_required' = qubits_required(number_qubits_required, op)
          /\ already_seen_definitions' = ds.seen
          /\ definitions' = ds.definitions
          /\ emitted' = IF ds.pushed
                        THEN Append(emitted, [hqslang |-> op.hqslang, at |-> idx])
                        ELSE emitted
          /\ IF ~ds.ok
             THEN /\ Return(Err(ds.err))
                  /\ UNCHANGED <<data, idx>>
             ELSE IF ~cs.ok
             THEN /\ Return(Err(cs.err))
                  /\ UNCHANGED <<data, idx>>
             ELSE /\ data' = cs.data
                  /\ idx' = idx + 1
                  /\ UNCHANGED <<pc, results, file_log>>
    /\ UNCHANGED <<qubit_register_name, qasm_version, circuit, call, fs, parsed, gatherer>>

\* the loop is over: circuit_to_qasm_str returns Ok(qasm_string)
Finish ==
    /\ pc = "loop"
    /\ idx > Len(circuit)
    /\ call.entry = "str"
    /\ Return(Ok(qasm_string(qasm_version, definitions, qubit_register_name,
                             number_qubits_required, data)))
    /\ UNCHANGED <<qubit_register_name, qasm_version, circuit, call, idx, locals,
                   fs, parsed, gatherer>>

Next == StartCall \/ StepOp \/ Finish

Spec == Init /\ [][Next]_vars

\* ================================================================ claims
Statements(t) == SelectSeq(t, LAMBDA x : x # NL)
QDecls(t) == {k \in 1..Len(t) : t[k].rule = "q_decl"}
\* the text after the register declaration and its '\n'
BodyOf(t) == LET k == CHOOSE j \in QDecls(t) : TRUE IN SubSeq(t, k + 2, Len(t))
GateDefs(t) == {k \in 1..Len(t) : t[k].rule = "gate_def"}

RECURSIVE RenderAll(_, _, _)
RenderAll(c, reg, v) ==
    IF c = << >> THEN << >>
    ELSE call_operation(Head(c), reg, v).text \o RenderAll(Tail(c), reg, v)

HasKind(c, h) == \E i \in 1..Len(c) : c[i].hqslang = h
Returned(i) == results[i]
Calls == 1..Len(results)

\* C2: two calls of circuit_to_qasm_str on the same circuit with the same
\* Backend return the same result, the same text or the same error.
C2_Idempotent == \A i, j \in Calls : Returned(i) = Returned(j)

C2_Witness ==
    /\ Len(results) = 2
    /\ Returned(2).ok
    /\ \E i \in 1..Len(circuit) :
          circuit[i].hqslang = "PragmaRepeatedMeasurement" /\ circuit[i].mapped

\* the kinds the claim C3 lists: no rendering rule and not on the allow-list
NoRule(op, v) ==
    \/ op.hqslang = "Bogoliubov"
    \/ op.hqslang \in {"GPi", "GPi2"} /\ v # V3Braket

\* the translation of op fails, whatever was seen before it
Fails(op, reg, v) == ~gate_definition(op, v).ok \/ ~call_operation(op, reg, v).ok

\* C3 as stated: a circuit with an operation without rendering rule returns
\* OperationNotInBackend naming that operation's kind, whatever precedes it.
C3_Original ==
    \A r \in Calls : \A i \in 1..Len(circuit) :
        NoRule(circuit[i], qasm_version)
            => /\ ~Returned(r).ok
               /\ Returned(r).text = << >>
               /\ Returned(r).err.kind = "OperationNotInBackend"
               /\ Returned(r).err.what = circuit[i].hqslang

\* C3 amended: such a circuit returns an error and no text, and the error is
\* OperationNotInBackend naming the kind of the operation when no operation
\* before it in the circuit fails.
C3_FirstFailure ==
    \A r \in Calls : \A i \in 1..Len(circuit) :
        NoRule(circuit[i], qasm_version)
            => /\ ~Returned(r).ok
               /\ Returned(r).text = << >>
               /\ (\A j \in 1..(i - 1) :
                      ~Fails(circuit[j], qubit_register_name, qasm_version))
                     => /\ Returned(r).err.kind = "OperationNotInBackend"
                        /\ Returned(r).err.what = circuit[i].hqslang

C3_Witness ==
    /\ Len(results) >= 1
    /\ Len(circuit) = 2
    /\ circuit[1].hqslang = "PauliX"
    /\ circuit[2].hqslang = "Bogoliubov"
    /\ ~Returned(1).ok
    /\ Returned(1).err.what = "Bogoliubov"

C7_NoEmptyLine ==
    \A r \in Calls :
        Returned(r).ok =>
            LET b == BodyOf(Returned(r).text)
            IN \A i \in 1..Len(b) :
                  b[i] = NL => (i > 1 /\ b[i - 1] # NL)

\* the largest index in the involved-qubit set of any operation, 0 if none
RECURSIVE MaxInvolved(_)
MaxInvolved(c) ==
    IF c = << >> THEN 0
    ELSE LET inv == involved_qubits(Head(c))
             m == IF inv.kind = "Set" /\ inv.qubits # {} THEN SetMax(inv.qubits) ELSE 0
         IN Max2(m, MaxInvolved(Tail(c)))

\* C8: the declared qubit register has size 1 + the largest qubit index in
\* the involved-qubit set of any operation (1 if there is none), as
\* `qreg name[n];` under 2.0 and as `qubit[n] name;` under 3.0.
C8_RegisterSize ==
    \A r \in Calls :
        Returned(r).ok =>
            LET t == Returned(r).text
            IN \A k \in QDecls(t) :
                  /\ t[k].size = 1 + MaxInvolved(circuit)
                  /\ t[k].name = qubit_register_name
                  /\ t[k].form = (IF qasm_version = V2point0 THEN "qreg" ELSE "qubit")

C8_Witness ==
    /\ Len(results) >= 1
    /\ Returned(1).ok
    /\ Len(circuit) = 2
    /\ circuit[1].hqslang = "RotateZ"
    /\ circuit[2].hqslang = "PauliX"
    /\ \E k \in QDecls(Returned(1).text) : Returned(1).text[k].size = 3

FirstOf(h) == CHOOSE i \in 1..Len(circuit) :
                 /\ circuit[i].hqslang = h
                 /\ \A j \in 1..(i - 1) : circuit[j].hqslang # h

\* C9: within one call the definition of a kind is pushed at most once, at
\* the first operation of that kind; the kinds of the preamble are never
\* pushed in the loop; every call starts from the same seen-list.
C9_DefinedOnce ==
    /\ \A i, j \in 1..Len(emitted) :
          emitted[i].hqslang = emitted[j].hqslang => i = j
    /\ \A i \in 1..Len(emitted) :
          /\ emitted[i].at = FirstOf(emitted[i].hqslang)
          /\ ~Contains(InitialSeen, emitted[i].hqslang)
    /\ (pc = "loop" /\ idx = 1) => already_seen_definitions = InitialSeen
    /\ pc = "loop" =>
          \A i \in 1..(idx - 1) :
              (gate_definition(circuit[i], qasm_version).text # << >>
               /\ ~Contains(InitialSeen, circuit[i].hqslang))
                 => \E e \in 1..Len(emitted) : emitted[e].hqslang = circuit[i].hqslang

C9_Witness ==
    /\ pc = "loop"
    /\ idx = 3
    /\ Len(results) = 1
    /\ circuit[1].hqslang = "PauliX"
    /\ circuit[2].hqslang = "PauliX"
    /\ Len(emitted) = 1

\* C10 as stated: no gate name is defined by more than one definition of the
\* output.
C10_NoDuplicateName ==
    \A r \in Calls :
        Returned(r).ok =>
            LET t == Returned(r).text
            IN \A i, j \in GateDefs(t) : t[i].id = t[j].id => i = j

\* ======================================================= writing to a file
\* the file names the caller passes; both name the same output file
Filenames == {"out", "out.txt"}
Folder == "tmp"

\* folder_name.join(filename.with_extension("qasm")): the extension of the
\* file name, if it has one, is replaced
output_path(folder, filename) ==
    CASE filename = "out" /\ folder = "tmp" -> "tmp/out.qasm"
      [] filename = "out.txt" /\ folder = "tmp" -> "tmp/out.qasm"

OldContent == <<[rule |-> "version", version |-> "old"], NL>>

FileCircuits ==
    {<<PauliX(0)>>,
     <<DefinitionBit("ro", 2, FALSE), PauliX(1)>>,
     <<PauliX(0), Bogoliubov(0, 1)>>,
     <<GPi(0, CFloat(PiMilli))>>}

InitFile ==
    /\ qubit_register_name = "q"
    /\ qasm_version \in QasmVersion
    /\ circuit = << >>
    /\ call = NoCall
    /\ pc = "idle"
    /\ idx = 0
    /\ definitions = << >>
    /\ data = << >>
    /\ number_qubits_required = 0
    /\ already_seen_definitions = << >>
    /\ emitted = << >>
    /\ results = << >>
    /\ fs \in {NoFile, File(OldContent)}
    /\ file_log = << >>
    /\ parsed = NotParsed
    /\ called = NotCalled
    /\ variables = {}
    /\ parse_log = << >>

\* mutant: the output file is created before the circuit is translated
StartFileCallCreateFirst ==
    /\ pc = "idle"
    /\ Len(file_log) < MaxCalls
    /\ \E c \in FileCircuits, o \in BOOLEAN, f \in Filenames :
          /\ circuit' = c
          /\ call' = [entry |-> "file", overwrite |-> o, filename |-> f, before |-> fs]
          /\ fs' = IF fs.exists /\ ~o THEN fs ELSE File(<< >>)
    /\ Enter
    /\ UNCHANGED <<qubit_register_name, qasm_version, results, file_log, parsed, gatherer>>

\* circuit_to_qasm_file(circuit, folder_name, filename, overwrite) is called
StartFileCall ==
    /\ pc = "idle"
    /\ Len(file_log) < MaxCalls
    /\ \E c \in FileCircuits, o \in BOOLEAN, f \in Filenames :
          /\ circuit' = c
          /\ call' = [entry |-> "file", overwrite |-> o, filename |-> f, before |-> fs]
    /\ Enter
    /\ UNCHANGED <<qubit_register_name, qasm_version, results, fs, file_log, parsed, gatherer>>

\* mutant: the file is written whether it exists or not
FinishFileNoCheck ==
    /\ pc = "loop"
    /\ idx > Len(circuit)
    /\ call.entry = "file"
    /\ LET text == qasm_string(qasm_version, definitions, qubit_register_name,
                               number_qubits_required, data)
       IN /\ fs' = File(text)
          /\ results' = Append(results, Ok(<< >>))
          /\ file_log' = Append(file_log,
                [translated |-> Ok(text), returned |-> Ok(<< >>),
                 overwrite |-> call.overwrite, before |-> call.before,
                 after |-> fs'])
    /\ pc' = "idle"
    /\ UNCHANGED <<qubit_register_name, qasm_version, circuit, call, idx, locals,
                   parsed, gatherer>>

\* the translation succeeded: the file is written, or FileAlreadyExists
FinishFile ==
    /\ pc = "loop"
    /\ idx > Len(circuit)
    /\ call.entry = "file"
    /\ LET text == qasm_string(qasm_version, definitions, qubit_register_name,
                               number_qubits_required, data)
           path == output_path(Folder, call.filename)
           ret == IF fs.exists /\ ~call.overwrite
                  THEN Err(FileAlreadyExists(path))
                  ELSE Ok(<< >>)
       IN /\ fs' = IF fs.exists /\ ~call.overwrite THEN fs ELSE File(text)
          /\ results' = Append(results, ret)
          /\ file_log' = Append(file_log,
                [translated |-> Ok(text), returned |-> ret,
                 overwrite |-> call.overwrite, before |-> call.before,
                 after |-> fs'])
    /\ pc' = "idle"
    /\ UNCHANGED <<qubit_register_name, qasm_version, circuit, call, idx, locals,
                   parsed, gatherer>>

NextFile == StartFileCall \/ StepOp \/ FinishFile

SpecFile == InitFile /\ [][NextFile]_vars

FileCalls == 1..Len(file_log)

\* C4: when the translation fails, circuit_to_qasm_file returns that error
\* and the file at the output path is as it was before the call: not
\* created, not modified, with overwrite set or not.
C4_FailureLeavesFile ==
    /\ \A i \in FileCalls :
          ~file_log[i].translated.ok
             => /\ file_log[i].returned = file_log[i].translated
                /\ file_log[i].after = file_log[i].before
    /\ (pc = "loop" /\ call.entry = "file") => fs = call.before

C4_Witness ==
    \E i \in FileCalls :
        /\ ~file_log[i].translated.ok
        /\ file_log[i].overwrite
        /\ file_log[i].before.exists
        /\ fs = File(OldContent)

\* C5 as stated: with a file at the output path and overwrite = false the
\* call returns FileAlreadyExists carrying the path and leaves the file alone.
C5_Original ==
    \A i \in FileCalls :
        (file_log[i].before.exists /\ ~file_log[i].overwrite)
           => /\ file_log[i].returned.err.kind = "FileAlreadyExists"
              /\ file_log[i].returned.err.what = "tmp/out.qasm"
              /\ file_log[i].after = file_log[i].before

\* C5 amended: with a file at the output path and overwrite = false the file
\* is left unchanged, and the call returns FileAlreadyExists carrying the
\* path when the translation succeeds (the translation error otherwise); so
\* in a sequence of calls with overwrite = false the file is written at most
\* once, by the first call whose translation succeeds.
C5_ExistingFileKept ==
    /\ \A i \in FileCalls :
          (file_log[i].before.exists /\ ~file_log[i].overwrite)
             => /\ file_log[i].after = file_log[i].before
                /\ file_log[i].translated.ok
                     => /\ file_log[i].returned.err.kind = "FileAlreadyExists"
                        /\ file_log[i].returned.err.what = "tmp/out.qasm"
                /\ ~file_log[i].translated.ok
                     => file_log[i].returned = file_log[i].translated
    /\ \A j \in FileCalls :
          (\A k \in 1..j : ~file_log[k].overwrite)
             => \A i \in 1..j :
                   file_log[i].after # file_log[i].before
                      => /\ \A k \in 1..j : file_log[k].after # file_log[k].before => k = i
                         /\ file_log[i].translated.ok
                         /\ ~file_log[i].before.exists
                         /\ \A k \in 1..(i - 1) : ~file_log[k].translated.ok

C5_Witness ==
    /\ Len(file_log) = 2
    /\ ~file_log[1].overwrite /\ ~file_log[2].overwrite
    /\ file_log[1].returned.ok
    /\ ~file_log[1].before.exists
    /\ file_log[2].translated.ok
    /\ file_log[2].returned.err.kind = "FileAlreadyExists"
    /\ fs = file_log[1].after

\* ================================================================= parser
NoOp == [hqslang |-> "None"]
Some(op) == [some |-> TRUE, panic |-> FALSE, op |-> op]
None == [some |-> FALSE, panic |-> FALSE, op |-> NoOp]
Panic == [some |-> FALSE, panic |-> TRUE, op |-> NoOp]

\* is_close(a, b): (a - b).norm() < 1e-10
is_close(a, b) == a = b

\* Calculator::parse_str of a parameter, after "pi" is replaced by
\* 3.141592653589793: the value of a literal or of a closed expression, an
\* error for an expression with a variable that is not set
parse_str(p) ==
    CASE p.num -> [ok |-> TRUE, v |-> p.v]
      [] p.s = "pi/2" -> [ok |-> TRUE, v |-> HalfPiMilli]
      [] p.s = "pi" -> [ok |-> TRUE, v |-> PiMilli]
      [] p.s = "0" -> [ok |-> TRUE, v |-> 0]
      [] OTHER -> [ok |-> FALSE, v |-> 0]

\* CalculatorFloat::from(String): Float if the string parses as f64, else Str
from_string(p) ==
    CASE p.num -> CFloat(p.v)
      [] p.s = "0" -> CFloat(0)
      [] OTHER -> CStr(p.s)

\* Dispatch function for qoqo operations; params[k] and qubits[k] panic when
\* the slice is shorter.
gate_dispatch(name, params, qubits, defined_custom_gates) ==
    LET \* u3, u2 and u1 give a SingleQubitGate whose alpha and beta are
        \* trigonometric functions of theta, phi and lambda, kept unevaluated
        unitary(theta, phi, lambda) ==
            [hqslang |-> "SingleQubitGate", qubit |-> qubits[1],
             euler |-> <<theta, phi, lambda>>]
    IN CASE name = "rz" ->
              IF Len(params) < 1 \/ Len(qubits) < 1 THEN Panic
              ELSE Some(RotateZ(qubits[1], params[1]))
         [] name = "rx" ->
              IF Len(params) < 1 \/ Len(qubits) < 1 THEN Panic
              ELSE Some(RotateX(qubits[1], params[1]))
         [] name = "ry" ->
              IF Len(params) < 1 \/ Len(qubits) < 1 THEN Panic
              ELSE Some([hqslang |-> "RotateY", qubit |-> qubits[1], theta |-> params[1]])
         [] name = "h" -> IF Len(qubits) < 1 THEN Panic ELSE Some(Hadamard(qubits[1]))
         [] name = "x" -> IF Len(qubits) < 1 THEN Panic ELSE Some(PauliX(qubits[1]))
         [] name = "cx" ->
              IF Len(qubits) < 2 THEN Panic ELSE Some(CNOT(qubits[1], qubits[2]))
         [] name = "rxx" ->
              IF Len(params) < 1 \/ Len(qubits) < 2 THEN Panic
              ELSE IF params[1].float /\ is_close(params[1].v, PiMilli)
                   THEN Some(MolmerSorensenXX(qubits[1], qubits[2]))
                   ELSE Some(VariableMSXX(qubits[1], qubits[2], params[1]))
         [] name = "u3" ->
              IF Len(params) < 3 \/ Len(qubits) < 1 THEN Panic
              ELSE Some(unitary(params[1], params[2], params[3]))
         [] name = "u2" ->
              IF Len(params) < 2 \/ Len(qubits) < 1 THEN Panic
              ELSE Some(unitary(CFloat(HalfPiMilli), params[1], params[2]))
         [] name = "u1" ->
              IF Len(params) < 1 \/ Len(qubits) < 1 THEN Panic
              ELSE Some(unitary(CFloat(0), CFloat(0), params[1]))
         [] OTHER ->
              IF <<name, Len(qubits), Len(params)>> \in defined_custom_gates
              THEN Some(CallDefinedGate(name, qubits, params))
              ELSE None

\* the position of a formal qubit among the formal qubits of the definition
SlotPositions(on, slots) ==
    LET pos(r) == {i \in 1..Len(slots) : slots[i] = r}
        hits == SelectSeq(on, LAMBDA r : pos(r) # {})
    IN [i \in 1..Len(hits) |-> (CHOOSE k \in pos(hits[i]) : \A m \in pos(hits[i]) : k <= m) - 1]

\* the gates of a definition body that gate_dispatch knows
RECURSIVE definition_circuit(_, _, _)
definition_circuit(body, slots, custom) ==
    IF body = << >> THEN [panic |-> FALSE, circuit |-> << >>]
    ELSE LET g == Head(body)
             rest == definition_circuit(Tail(body), slots, custom)
             d == IF g.rule = "gate"
                  THEN gate_dispatch(g.id,
                                     [i \in 1..Len(g.params) |-> from_string(g.params[i])],
                                     SlotPositions(g.qubits, slots), custom)
                  ELSE None
         IN [panic |-> d.panic \/ rest.panic,
             circuit |-> (IF d.some THEN <<d.op>> ELSE << >>) \o rest.circuit]

\* parse_single_rule: the operation of one statement, if it has one, and the
\* custom gates defined so far
parse_single_rule(pair, custom) ==
    CASE pair.rule = "c_decl" ->
           [r |-> Some(DefinitionBit(pair.name, pair.length, TRUE)), custom |-> custom]
      [] pair.rule = "gate" ->
           LET vals == [i \in 1..Len(pair.params) |-> parse_str(pair.params[i])]
           IN IF \E i \in 1..Len(vals) : ~vals[i].ok
              THEN [r |-> Panic, custom |-> custom]
              ELSE [r |-> gate_dispatch(pair.id,
                                        [i \in 1..Len(vals) |-> CFloat(vals[i].v)],
                                        [i \in 1..Len(pair.qubits) |-> pair.qubits[i].idx],
                                        custom),
                    custom |-> custom]
      [] pair.rule = "measurement" ->
           [r |-> Some(MeasureQubit(pair.qubit.idx, pair.readout, pair.readout_index)),
            custom |-> custom]
      [] pair.rule = "reset" ->
           [r |-> Some(PragmaActiveReset(pair.qubit.idx)), custom |-> custom]
      [] pair.rule = "gate_def" ->
           IF gate_dispatch(pair.id, <<CFloat(0), CFloat(0), CFloat(0), CFloat(0)>>,
                            <<0, 1, 2, 3>>, custom).some
           THEN [r |-> None, custom |-> custom]
           ELSE LET dc == definition_circuit(pair.body, pair.slots, custom)
                IN [r |-> IF dc.panic THEN Panic
                          ELSE Some(GateDefinition(dc.circuit, pair.id,
                                       [i \in 1..Len(pair.slots) |-> i - 1],
                                       pair.formals)),
                    custom |-> custom \cup
                                 {<<pair.id, Len(pair.slots), Len(pair.formals)>>}]
      [] OTHER -> [r |-> None, custom |-> custom]

\* the statements the grammar qasm2_0.pest has a rule for
GrammarRules == {"version", "q_decl", "c_decl", "gate_def", "gate", "measurement", "reset"}

RECURSIVE parse_pairs(_, _)
parse_pairs(pairs, custom) ==
    IF pairs = << >> THEN [panic |-> FALSE, circuit |-> << >>]
    ELSE LET one == parse_single_rule(Head(pairs), custom)
             rest == parse_pairs(Tail(pairs), one.custom)
         IN [panic |-> one.r.panic \/ rest.panic,
             circuit |-> (IF one.r.some THEN <<one.r.op>> ELSE << >>) \o rest.circuit]

\* Main parse function method
parse_qasm_file(file) ==
    LET pairs == Statements(file)
    IN IF \E i \in 1..Len(pairs) : pairs[i].rule \notin GrammarRules
       THEN [done |-> TRUE, ok |-> FALSE, panic |-> FALSE, circuit |-> << >>]
       ELSE LET p == parse_pairs(pairs, {})
            IN [done |-> TRUE, ok |-> ~p.panic, panic |-> p.panic,
                circuit |-> IF p.panic THEN << >> ELSE p.circuit]

\* Translates a QASM string into a qoqo Circuit instance
string_to_circuit(input) == parse_qasm_file(input \o <<NL>>)

\* circuits of plain gates, MeasureQubit and classical-register definitions
RoundTripOps ==
    {RotateX(0, CFloat(HalfPiMilli)), RotateZ(2, CFloat(500)),
     RotateX(1, CStr("theta")), PauliX(1), Hadamard(0), Identity(0), CNOT(0, 1),
     MolmerSorensenXX(0, 1), VariableMSXX(0, 2, CFloat(500)),
     MeasureQubit(0, "ro", 1),
     DefinitionBit("ro", 2, TRUE), DefinitionBit("ro", 2, FALSE),
     DefinitionFloat("rf", 2, TRUE)}

InitRoundTrip ==
    /\ qubit_register_name = "q"
    /\ qasm_version = V2point0
    /\ circuit \in SeqsUpTo(RoundTripOps, MaxLen)
    /\ call = NoCall
    /\ pc = "idle"
    /\ idx = 0
    /\ definitions = << >>
    /\ data = << >>
    /\ number_qubits_required = 0
    /\ already_seen_definitions = << >>
    /\ emitted = << >>
    /\ results = << >>
    /\ fs = NoFile
    /\ file_log = << >>
    /\ parsed = NotParsed
    /\ called = NotCalled
    /\ variables = {}
    /\ parse_log = << >>

\* string_to_circuit is called with the text circuit_to_qasm_str returned
ParseBack ==
    /\ pc = "idle"
    /\ Len(results) >= 1
    /\ results[Len(results)].ok
    /\ ~parsed.done
    /\ parsed' = string_to_circuit(results[Len(results)].text)
    /\ UNCHANGED <<qubit_register_name, qasm_version, circuit, call, pc, idx,
                   locals, results, fs, file_log, gatherer>>

NextRoundTrip == StartCall \/ StepOp \/ Finish \/ ParseBack

SpecRoundTrip == InitRoundTrip /\ [][NextRoundTrip]_vars

\* C1 as stated: string_to_circuit(circuit_to_qasm_str(c)) under Version 2.0
\* returns a Circuit equal to c: the same operations in the same order.
C1_RoundTrip == parsed.done => (parsed.ok /\ parsed.circuit = circuit)

\* the operations for which the two directions agree
C1_AgreeingOps ==
    (parsed.done
     /\ \A i \in 1..Len(circuit) :
           /\ circuit[i].hqslang \in {"RotateX", "RotateZ", "PauliX", "Hadamard", "CNOT",
                                      "VariableMSXX", "MeasureQubit", "DefinitionBit"}
           /\ circuit[i].hqslang = "DefinitionBit" => circuit[i].is_output
           /\ circuit[i].hqslang \in {"RotateX", "RotateZ", "VariableMSXX"}
                 => circuit[i].theta.float)
       => (parsed.ok /\ parsed.circuit = circuit)

\* ==================================================== call_operation alone
\* The operations handed to call_operation directly.  Nested circuits are
\* empty, one operation, or a Hadamard followed by one operation.
MaxDepth == 3

Atoms == {Hadamard(0), Bogoliubov(0, 1), RotateX(0, CStr("theta"))}
Repetitions == {CFloat(0), CFloat(2000), CStr("n")}

NestedCircuits(ops) ==
    {<< >>} \cup {<<o>> : o \in ops} \cup {<<Hadamard(0), o>> : o \in ops}

RECURSIVE NestedOps(_)
NestedOps(d) ==
    IF d = 0 THEN Atoms
    ELSE LET cs == NestedCircuits(NestedOps(d - 1))
         IN Atoms
            \cup {PragmaLoop(r, c) : r \in Repetitions, c \in cs}
            \cup {PragmaConditional("c", 0, c) : c \in cs}

PragmaOps ==
    {PragmaActiveReset(0), PragmaSleep(<<0, 1>>, CFloat(500)),
     PragmaSleep(<<0>>, CStr("t")),
     PragmaDamping(0, CFloat(500), CFloat(100)),
     PragmaDephasing(1, CFloat(500), CStr("rate")),
     PragmaDepolarising(0, CFloat(500), CFloat(100)),
     PragmaBoostNoise(CFloat(500)),
     PragmaGetStateVector("ro", << >>),
     PragmaGetDensityMatrix("ro", <<Hadamard(0)>>),
     PragmaGetOccupationProbability("ro", << >>),
     PragmaSetNumberOfMeasurements(20, "ro"),
     PragmaStartDecompositionBlock(<<0, 1>>, <<(<<0, 1>>), (<<1, 0>>)>>),
     PragmaStopDecompositionBlock(<<0, 1>>),
     PragmaStopParallelBlock(<<0, 1>>),
     PragmaGlobalPhase(CFloat(500))}

CallOps == NestedOps(MaxDepth) \cup PragmaOps

InitCall ==
    /\ qubit_register_name = "q"
    /\ qasm_version \in QasmVersion
    /\ circuit = << >>
    /\ call = NoCall
    /\ pc = "idle"
    /\ idx = 0
    /\ definitions = << >>
    /\ data = << >>
    /\ number_qubits_required = 0
    /\ already_seen_definitions = << >>
    /\ emitted = << >>
    /\ results = << >>
    /\ fs = NoFile
    /\ file_log = << >>
    /\ parsed = NotParsed
    /\ called \in {[NotCalled EXCEPT !.operation = op] : op \in CallOps}
    /\ variables = {}
    /\ parse_log = << >>

\* call_operation(operation, qubit_register_name, qasm_version, &mut None)
CallOperation ==
    /\ ~called.done
    /\ called' = [called EXCEPT
                    !.done = TRUE,
                    !.result = call_operation(called.operation, qubit_register_name,
                                              qasm_version)]
    /\ UNCHANGED <<qubit_register_name, qasm_version, circuit, call, pc, idx, locals,
                   results, fs, file_log, parsed, variables, parse_log>>

NextCall == CallOperation

SpecCall == InitCall /\ [][NextCall]_vars

Op == called.operation
Res == called.result

\* t repeated n times
RECURSIVE Repeated(_, _)
Repeated(n, t) == IF n = 0 THEN << >> ELSE t \o Repeated(n - 1, t)

\* the loop translated by unrolling: the statements of the nested circuit,
\* one per line, as many times as the integer part of the count
IsUnrolled(r, op, reg, v) ==
    LET n == IF op.repetitions.v < 0 THEN 0 ELSE op.repetitions.v \div 1000
        cc == call_circuit(op.circuit, reg, v)
    IN IF n = 0 THEN r = Ok(<< >>)
       ELSE IF ~cc.ok THEN ~r.ok /\ r.text = << >> /\ r.err = cc.err
       ELSE r.ok /\ r.text = Repeated(n, Lines(cc.texts))

\* C14 as stated: call_operation on a PragmaLoop under Version 2.0 returns an
\* error and no text, for every repetition count and nested circuit.
C14_Original ==
    (called.done /\ Op.hqslang = "PragmaLoop" /\ qasm_version = V2point0)
        => (~Res.ok /\ Res.text = << >>)

\* C14 amended: under Version 2.0 a PragmaLoop with a symbolic count returns
\* an error and no text; with a numeric count it is unrolled, and fails only
\* with the error of its nested circuit.
C14_Version2Loop ==
    (called.done /\ Op.hqslang = "PragmaLoop" /\ qasm_version = V2point0)
        => IF Op.repetitions.float
           THEN IsUnrolled(Res, Op, qubit_register_name, qasm_version)
           ELSE ~Res.ok /\ Res.text = << >> /\ Res.err.kind = "GenericError"

C14_Witness ==
    /\ called.done
    /\ qasm_version = V2point0
    /\ Op = PragmaLoop(CFloat(2000), <<Hadamard(0)>>)
    /\ Res.ok
    /\ Len(Res.text) = 4

\* C15: a PragmaLoop with a symbolic count is one `pragma roqoqo PragmaLoop`
\* statement under 3.0 Roqoqo and, under every other target, an error that
\* names the expression and the target, whatever the nested circuit.
C15_SymbolicLoop ==
    (called.done /\ Op.hqslang = "PragmaLoop" /\ ~Op.repetitions.float)
        => IF qasm_version = V3Roqoqo
           THEN /\ Res.ok
                /\ Len(Res.text) = 1
                /\ Res.text[1].rule = "pragma"
                /\ Res.text[1].hqslang = "PragmaLoop"
           ELSE /\ ~Res.ok
                /\ Res.text = << >>
                /\ Res.err.kind = "GenericError"
                /\ Res.err.expression = Op.repetitions.s
                /\ Res.err.version = qasm_version

C15_Witness ==
    /\ called.done
    /\ qasm_version = V3Braket
    /\ Op = PragmaLoop(CStr("n"), <<Hadamard(0)>>)
    /\ ~Res.ok
    /\ Res.err.expression = "n"

\* one counted loop whose block holds the translation of the nested circuit
\* exactly once
IsCountedLoop(r, op, reg, v) ==
    /\ r.ok
    /\ Len(r.text) >= 4
    /\ r.text[1] = [rule |-> "for", count |-> op.repetitions.v]
    /\ r.text[2] = NL
    /\ SubSeq(r.text, 3, Len(r.text) - 2) = RenderAll(op.circuit, reg, v)
    /\ r.text[Len(r.text) - 1] = NL
    /\ r.text[Len(r.text)] = [rule |-> "block_end"]

NumericLoop ==
    /\ called.done
    /\ Op.hqslang = "PragmaLoop"
    /\ Op.repetitions.float
    /\ call_circuit(Op.circuit, qubit_register_name, qasm_version).ok

\* C16 as stated: under 3.0 Vanilla and under 3.0 Braket a PragmaLoop with a
\* numeric count is one counted loop over the nested circuit.
C16_Original ==
    (NumericLoop /\ qasm_version \in {V3Vanilla, V3Braket})
        => IsCountedLoop(Res, Op, qubit_register_name, qasm_version)

\* C16 amended: it is one counted loop under 3.0 Vanilla; under 3.0 Braket
\* the loop is unrolled.
C16_VanillaLoop ==
    /\ (NumericLoop /\ qasm_version = V3Vanilla)
          => IsCountedLoop(Res, Op, qubit_register_name, qasm_version)
    /\ (NumericLoop /\ qasm_version = V3Braket)
          => IsUnrolled(Res, Op, qubit_register_name, qasm_version)

C16_Witness ==
    /\ called.done
    /\ qasm_version = V3Vanilla
    /\ Op = PragmaLoop(CFloat(2000), <<Hadamard(0), Hadamard(0)>>)
    /\ Res.ok
    /\ Len(Res.text) = 6

\* a PragmaConditional among the operations of c, or inside a PragmaLoop or a
\* PragmaConditional of c, at any depth
RECURSIVE NestsConditional(_)
NestsConditional(c) ==
    \E i \in 1..Len(c) :
        \/ c[i].hqslang = "PragmaConditional"
        \/ c[i].hqslang = "PragmaLoop" /\ NestsConditional(c[i].circuit)

\* conditionals in conditionals, down to Hadamard gates
RECURSIVE ConditionalsOnly(_)
ConditionalsOnly(c) ==
    \A i \in 1..Len(c) :
        \/ c[i].hqslang = "Hadamard"
        \/ c[i].hqslang = "PragmaConditional" /\ ConditionalsOnly(c[i].circuit)

\* C17 as stated: under Version 2.0 a PragmaConditional that holds another
\* one, directly or inside a nested PragmaLoop, returns an error; under
\* Version 3.0 nested conditionals translate to nested if blocks.
C17_NestedConditional ==
    (called.done /\ Op.hqslang = "PragmaConditional")
        => /\ (qasm_version = V2point0 /\ NestsConditional(Op.circuit)) => ~Res.ok
           /\ (IsV3(qasm_version) /\ ConditionalsOnly(Op.circuit))
                 => /\ Res.ok
                    /\ Res.text[1].rule = "if_block"
                    /\ Res.text[Len(Res.text)] = [rule |-> "block_end"]

\* the two parts of C17 that the code keeps: a conditional that is a direct
\* child is refused under 2.0, and 3.0 nests if blocks
C17_DirectChild ==
    (called.done /\ Op.hqslang = "PragmaConditional")
        => /\ (qasm_version = V2point0 /\ ConditionalsOnly(Op.circuit)
               /\ \E i \in 1..Len(Op.circuit) : Op.circuit[i].hqslang = "PragmaConditional")
                 => (~Res.ok /\ Res.err = NestedConditionalError)
           /\ (IsV3(qasm_version) /\ ConditionalsOnly(Op.circuit))
                 => /\ Res.ok
                    /\ Res.text[1].rule = "if_block"
                    /\ Res.text[Len(Res.text)] = [rule |-> "block_end"]

\* the pragma kinds of C18
NoisePragmas == {"PragmaDamping", "PragmaDephasing", "PragmaDepolarising"}
BlockMarkers == {"PragmaStartDecompositionBlock", "PragmaStopDecompositionBlock"}
Introspection ==
    {"PragmaGetStateVector", "PragmaGetDensityMatrix", "PragmaGetOccupationProbability"}

\* one escape statement under 3.0 Roqoqo; elsewhere dropped if allow-listed
\* and OperationNotInBackend if not
EscapeOrAllowList(r, op, v) ==
    IF v = V3Roqoqo
    THEN /\ r.ok
         /\ Len(r.text) = 1
         /\ r.text[1].rule = "pragma"
         /\ r.text[1].hqslang = op.hqslang
    ELSE IF op.hqslang \in ALLOWED_OPERATIONS
    THEN r = Ok(<< >>)
    ELSE ~r.ok /\ r.text = << >> /\ r.err = [kind |-> "OperationNotInBackend",
                                             what |-> op.hqslang]

\* C18 as stated: reset, sleep, noise channels, decomposition-block markers
\* and introspection requests render as one escape statement under 3.0
\* Roqoqo and as nothing or OperationNotInBackend under every other target.
C18_Original ==
    (called.done
     /\ Op.hqslang \in {"PragmaActiveReset", "PragmaSleep"} \cup NoisePragmas
                        \cup BlockMarkers \cup Introspection)
        => EscapeOrAllowList(Res, Op, qasm_version)

\* C18 amended: this holds for noise channels, block markers, introspection
\* requests and, outside Version 2.0, for sleep; a reset is the statement
\* `reset q[i];` under every target and a sleep under 2.0 is one
\* `pragmasleep(t) q[i];` per qubit.
C18_PragmaRendering ==
    called.done =>
        /\ Op.hqslang \in NoisePragmas \cup BlockMarkers \cup Introspection
              => EscapeOrAllowList(Res, Op, qasm_version)
        /\ (Op.hqslang = "PragmaSleep" /\ qasm_version # V2point0)
              => EscapeOrAllowList(Res, Op, qasm_version)
        /\ (Op.hqslang = "PragmaSleep" /\ qasm_version = V2point0)
              => /\ Res.ok
                 /\ Len(Statements(Res.text)) = Len(Op.qubits)
                 /\ \A i \in 1..Len(Op.qubits) :
                       /\ Statements(Res.text)[i].rule = "gate"
                       /\ Statements(Res.text)[i].id = "pragmasleep"
                       /\ Statements(Res.text)[i].qubits
                            = <<QRef(qubit_register_name, Op.qubits[i])>>
        /\ Op.hqslang = "PragmaActiveReset"
              => Res = Ok(<<[rule |-> "reset",
                             qubit |-> QRef(qubit_register_name, Op.qubit)]>>)

C18_Witness ==
    /\ called.done
    /\ qasm_version = V3Braket
    /\ Op.hqslang = "PragmaDamping"
    /\ ~Res.ok
    /\ Res.err.what = "PragmaDamping"


\* ============================================= circuits of gate definitions
\* circuits that define custom gates and call them
DefinitionOps ==
    {GateDefinition(<<PauliX(0), CNOT(0, 1)>>, "g", <<0, 1>>, << >>),
     GateDefinition(<<PauliX(0)>>, "g", <<0>>, << >>),
     GateDefinition(<<CNOT(0, 1), PauliX(1)>>, "g2", <<0, 1>>, << >>),
     CallDefinedGate("g", <<0, 1>>, << >>),
     CallDefinedGate("g2", <<0, 1>>, << >>),
     PauliX(0)}

InitDefinitions ==
    /\ qubit_register_name = "q"
    /\ qasm_version \in QasmVersion
    /\ circuit \in SeqsUpTo(DefinitionOps, MaxLen)
    /\ call = NoCall
    /\ pc = "idle"
    /\ idx = 0
    /\ definitions = << >>
    /\ data = << >>
    /\ number_qubits_required = 0
    /\ already_seen_definitions = << >>
    /\ emitted = << >>
    /\ results = << >>
    /\ fs = NoFile
    /\ file_log = << >>
    /\ parsed = NotParsed
    /\ called = NotCalled
    /\ variables = {}
    /\ parse_log = << >>

SpecDefinitions == InitDefinitions /\ [][Next]_vars

\* the names of the GateDefinitions of c, in the order of c
DefinedNames(c) ==
    LET gds == SelectSeq(c, LAMBDA o : o.hqslang = "GateDefinition")
    IN [i \in 1..Len(gds) |-> gds[i].name]

DistinctNames(c) ==
    LET names == DefinedNames(c)
    IN \A i, j \in 1..Len(names) : names[i] = names[j] => i = j

\* the names the text t defines, preamble and built-in gates left out
CustomDefined(t, c) ==
    LET names == {DefinedNames(c)[i] : i \in 1..Len(DefinedNames(c))}
        gds == SelectSeq(t, LAMBDA x : x.rule = "gate_def" /\ x.id \in names)
    IN [i \in 1..Len(gds) |-> gds[i].id]

\* C11 as stated: when the GateDefinitions of the circuit have pairwise
\* distinct names, the returned text defines every one of these gates exactly
\* once, in the order of the circuit.
C11_EveryDefinitionOnce ==
    \A r \in Calls :
        (Returned(r).ok /\ DistinctNames(circuit)) =>
            CustomDefined(Returned(r).text, circuit) = DefinedNames(circuit)


\* ------------------------------------------------------ the header lines
Includes(t) == {k \in 1..Len(t) : t[k].rule = "include"}

Using(t, e) ==
    {k \in 1..Len(t) : /\ t[k].rule = "gate"
                       /\ \E p \in 1..Len(t[k].params) : t[k].params[p] = ExprText(e)}
Inputs(t) == {k \in 1..Len(t) : t[k].rule = "input"}

\* C13 as stated: under Version 3.0 a successful output declares every free
\* variable of a gate parameter with an `input` line that stands after the
\* gate definitions and before the first statement that uses the variable;
\* a Version 2.0 output has no `input` line.
C13_InputDeclarations ==
    \A r \in Calls :
        Returned(r).ok =>
            LET t == Returned(r).text
            IN IF qasm_version = V2point0
               THEN Inputs(t) = {}
               ELSE \A i \in 1..Len(circuit) :
                       (circuit[i].hqslang = "RotateZ" /\ ~circuit[i].theta.float) =>
                           \E k \in Inputs(t) :
                               /\ t[k].name = circuit[i].theta.s
                               /\ \A g \in GateDefs(t) : g < k
                               /\ \A u \in Using(t, circuit[i].theta.s) : k < u


\* ======================================================== parse, called
\* the expressions handed to VariableGatherer::parse
MaxTokens == 3
MaxParses == 2

Call(f, gap, args) == <<Word(f)>> \o gap \o <<Sym("(")>> \o args \o <<Sym(")")>>

FunctionNames == OneArgument \cup TwoArguments \cup NotInOpenQASM3 \cup {"foo"}
Gaps == {<< >>, <<Spaces(1)>>, <<Spaces(2)>>}
Arguments ==
    {<<Word("a")>>, <<Num("1", 1)>>, <<Word("a"), Sym(","), Word("b")>>, << >>,
     <<Num("1", 1), Sym("/"), Word("a")>>,
     Call("cosh", << >>, <<Word("b")>>)}
\* what stands before and after a call
Contexts ==
    {[before |-> << >>, after |-> << >>],
     [before |-> <<Word("a"), Sym("+")>>, after |-> << >>],
     [before |-> <<Num("1", 1), Sym("/"), Word("a"), Sym("+")>>, after |-> << >>],
     [before |-> << >>, after |-> <<Sym("*"), Word("b")>>],
     [before |-> <<Sym("(")>>, after |-> <<Sym(")")>>],
     [before |-> <<Word("sin"), Sym("(")>>, after |-> <<Sym(")")>>],
     [before |-> Call("sinh", << >>, <<Word("a")>>) \o <<Sym("+")>>, after |-> << >>],
     [before |-> <<Word("b"), Sym(";"), Spaces(1)>>, after |-> << >>]}
CallExpressions ==
    {c.before \o Call(f, gap, args) \o c.after :
        c \in Contexts, f \in FunctionNames, gap \in Gaps, args \in Arguments}

Alphabet ==
    {Word("a"), Word("sin"), Word("abs"), Num("1", 1), Num("0", 0), Sym("("), Sym(")"),
     Sym("+"), Sym("/"), Sym("="), Spaces(1)}
Alphanumeric(x) == x.k \in {"word", "num", "badnum"}
\* the sequences that are the runs of a string
IsExpression(e) ==
    \A i \in 1..(Len(e) - 1) :
        /\ ~(Alphanumeric(e[i]) /\ Alphanumeric(e[i + 1]))
        /\ ~(e[i].k = "space" /\ e[i + 1].k = "space")
AllExpressions ==
    CallExpressions \cup {e \in SeqsUpTo(Alphabet, MaxTokens) : IsExpression(e)}

Expressions ==
    {<<Word("a")>>, <<Word("b")>>,
     <<Word("a"), Sym("+"), Word("b")>>,
     <<Num("1", 1), Sym("/"), Word("a")>>,
     <<Num("1", 1), Sym("/")>> \o Call("cos", << >>, <<Word("alpha")>>),
     Call("abs", << >>, <<Word("b")>>),
     <<Word("a"), Sym("+")>> \o Call("abs", << >>, <<Word("b")>>),
     Call("sin", << >>, <<Word("a")>>),
     Call("sin", <<Spaces(1)>>, <<Word("a")>>),
     Call("pow", << >>, <<Word("a"), Sym(","), Word("b")>>),
     Call("foo", << >>, <<Word("a")>>),
     <<Word("sin"), Sym("+"), Num("1", 1)>>,
     <<Word("a"), Sym("="), Num("1", 1)>>,
     <<Word("a"), Spaces(1), Word("b")>>,
     <<Word("c"), Sym(";"), Word("a")>>,
     <<Num("2", 2), Sym("*"), Word("theta")>>,
     <<Spaces(1)>>, << >>,
     <<Word("a"), Sym("+"), Wide("euro")>>}

InitGatherer ==
    /\ qubit_register_name = "q"
    /\ qasm_version = V3Vanilla
    /\ circuit = << >>
    /\ call = NoCall
    /\ pc = "idle"
    /\ idx = 0
    /\ definitions = << >>
    /\ data = << >>
    /\ number_qubits_required = 0
    /\ already_seen_definitions = << >>
    /\ emitted = << >>
    /\ results = << >>
    /\ fs = NoFile
    /\ file_log = << >>
    /\ parsed = NotParsed
    /\ called = NotCalled
    /\ variables = {}
    /\ parse_log = << >>

\* gatherer.parse(expression); the expressions are those whose divisions the
\* model decides exactly
Parse(expression) ==
    \E r \in {parse(expression, variables)} :
       /\ r.exact
       /\ variables' = r.variables
       /\ parse_log' = Append(parse_log,
              [expression |-> expression, outcome |-> r.outcome, err |-> r.err,
               before |-> variables, after |-> r.variables])
       /\ UNCHANGED <<qubit_register_name, qasm_version, circuit, call, pc, idx, locals,
                      results, fs, file_log, parsed, called>>

\* the first call of parse on a new VariableGatherer
ParseFirst ==
    /\ parse_log = << >>
    /\ \E expression \in AllExpressions : Parse(expression)

NextParse == ParseFirst

SpecParse == InitGatherer /\ [][NextParse]_vars

\* one more call of parse on the same VariableGatherer; a panic ends the run
ParseAgain ==
    /\ Len(parse_log) < MaxParses
    /\ \A i \in 1..Len(parse_log) : parse_log[i].outcome # "panic"
    /\ \E expression \in Expressions : Parse(expression)

NextGatherer == ParseAgain

SpecGatherer == InitGatherer /\ [][NextGatherer]_vars


\* ------------------------------------------------ the names parse gathers
\* the identifiers of e that are not the name of a function call
Identifiers(e) ==
    {e[i].s : i \in {j \in 1..Len(e) :
                        /\ e[j].k = "word"
                        /\ ~(j < Len(e) /\ e[j + 1] = Sym("("))}}
Parses == 1..Len(parse_log)
Succeeded == {i \in Parses : parse_log[i].outcome = "ok"}
NamesOf(calls) == UNION {Identifiers(parse_log[i].expression) : i \in calls}

IsCallAt(e, i) ==
    /\ e[i].k = "word"
    /\ \/ i < Len(e) /\ e[i + 1] = Sym("(")
       \/ i + 1 < Len(e) /\ e[i + 1].k = "space" /\ e[i + 2] = Sym("(")
RefusedCalls(e) ==
    {i \in 1..Len(e) : IsCallAt(e, i) /\ e[i].s \in NotInOpenQASM3}
\* the evaluation gets as far as position i without an error: a variable
\* that stands there is registered
Reached(e, i) ==
    "zz" \in parse(SubSeq(e, 1, i - 1) \o <<Word("zz")>>, {}).variables
\* the call f(x) or f(x,y) with variables and numbers for arguments
PlainCall(f, n) ==
    {Call(f, << >>, args) :
        args \in IF n = 1 THEN {<<Word("a")>>, <<Num("1", 1)>>}
                 ELSE {<<Word("a"), Sym(","), Word("b")>>}}

\* C20 as stated: whenever the expression holds a call f(...) of a function
\* of the refused list, wherever it stands and whatever its arguments, parse
\* fails with an error that names this function; a call with the right number of
\* arguments of a function of the accepted list parses.
C20_Original ==
    \A p \in Parses :
        LET e == parse_log[p].expression
        IN /\ e \in CallExpressions =>
                 \A i \in RefusedCalls(e) :
                    /\ parse_log[p].outcome = "err"
                    /\ parse_log[p].err.fct = e[i].s
           /\ \A f \in OneArgument : e \in PlainCall(f, 1) => parse_log[p].outcome = "ok"
           /\ \A f \in TwoArguments : e \in PlainCall(f, 2) => parse_log[p].outcome = "ok"

\* C20: when the evaluation reaches the call of a function of the refused
\* list, parse fails with the ParsingError that names this function; an error
\* that names a function names a refused or unknown function whose call the
\* evaluation has reached; a call f(x) of an accepted function of one
\* argument and the call pow(x,y) parse, and with the other number of
\* arguments they fail with an error that names no function.
C20_FirstRefused ==
    \A p \in Parses :
        LET e == parse_log[p].expression
            r == parse_log[p]
        IN /\ \A i \in RefusedCalls(e) :
                 Reached(e, i) =>
                    /\ r.outcome = "err"
                    /\ r.err.kind = "ParsingError"
                    /\ r.err.fct = e[i].s
           /\ (r.outcome = "err" /\ r.err.kind \in {"ParsingError", "FunctionNotFound"}
               /\ r.err.fct # "") =>
                 \E i \in 1..Len(e) :
                    /\ IsCallAt(e, i)
                    /\ Reached(e, i)
                    /\ e[i].s = r.err.fct
                    /\ e[i].s \notin OneArgument \cup TwoArguments
                    /\ (r.err.kind = "ParsingError") = (e[i].s \in NotInOpenQASM3)
           /\ \A f \in OneArgument :
                 /\ e \in PlainCall(f, 1) => r.outcome = "ok"
                 /\ e \in PlainCall(f, 2) => r.outcome = "err" /\ r.err.fct = ""
           /\ \A f \in TwoArguments :
                 /\ e \in PlainCall(f, 2) => r.outcome = "ok"
                 /\ e \in PlainCall(f, 1) => r.outcome = "err" /\ r.err.fct = ""

C20_Witness ==
    /\ Len(parse_log) = 1
    /\ parse_log[1].expression
          = <<Word("a"), Sym("+")>> \o Call("atan2", << >>, <<Word("a"), Sym(","), Word("b")>>)
    /\ parse_log[1].outcome = "err"
    /\ parse_log[1].err.fct = "atan2"
    /\ variables = {"a"}


\* =========================================== call_operation, with a gatherer
\* the runs of the characters of the expression strings the operations hold
Lexemes(s) ==
    CASE s = "a/b+c" -> <<Word("a"), Sym("/"), Word("b"), Sym("+"), Word("c")>>
      [] s = "a+b" -> <<Word("a"), Sym("+"), Word("b")>>
      [] s = "2*theta" -> <<Num("2", 2), Sym("*"), Word("theta")>>
      [] s = "abs(x)" -> Call("abs", << >>, <<Word("x")>>)
      [] s = "a+abs(x)" -> <<Word("a"), Sym("+")>> \o Call("abs", << >>, <<Word("x")>>)
      [] s = "sin(x)" -> Call("sin", << >>, <<Word("x")>>)
      [] OTHER -> <<Word(s)>>

\* calculator_float.to_string(): the expression of a Str; the literal of a
\* Float, a number with a sign in front of it when it is negative
to_string(calculator_float) ==
    IF ~calculator_float.float THEN Lexemes(calculator_float.s)
    ELSE IF calculator_float.v < 0
    THEN <<Sym("-"), Num("float", -calculator_float.v)>>
    ELSE <<Num("float", calculator_float.v)>>

\* Calls the parsing function of the VariableGatherer (here always present,
\* holding names): the names it holds afterwards; what parse returns is
\* dropped (`let _ =`)
variable_gathering(calculator_float, v, names) ==
    IF IsV3(v)
    THEN parse(to_string(calculator_float), names).variables
    ELSE names

\* the names the gatherer handed to call_operation holds when the call
\* returns: the arms of the rotations pass their angle to variable_gathering,
\* PragmaConditional under 2.0 hands the gatherer on to the nested operations
\* until one of them fails, call_circuit hands on `&mut None`
RECURSIVE gathered(_, _, _)
RECURSIVE gathered_conditional(_, _, _)
gathered(operation, v, names) ==
    CASE operation.hqslang \in {"RotateX", "RotateZ", "VariableMSXX", "GPi", "GPi2"} ->
           variable_gathering(operation.theta, v, names)
      [] operation.hqslang = "PragmaConditional" /\ v = V2point0 ->
           gathered_conditional(operation.circuit, v, names)
      [] OTHER -> names

gathered_conditional(c, v, names) ==
    IF c = << >> \/ Head(c).hqslang = "PragmaConditional" THEN names
    ELSE The({IF call_operation(Head(c), "q", v).ok
              THEN gathered_conditional(Tail(c), v, g)
              ELSE g
              : g \in {gathered(Head(c), v, names)}})

\* the symbolic parameters handed to call_operation
Parameters ==
    {CFloat(500), CStr("theta"), CStr("a+b"), CStr("a/b+c"), CStr("2*theta"),
     CStr("sin(x)"), CStr("abs(x)"), CStr("a+abs(x)")}
Rotations ==
    UNION {{RotateX(0, p), RotateZ(1, p), VariableMSXX(0, 1, p), GPi(0, p)} :
              p \in Parameters}
GatheringOps ==
    Rotations
    \cup {PauliX(0), PragmaGlobalPhase(CStr("phi")),
          CallDefinedGate("g", <<0>>, <<CStr("theta")>>)}
    \cup {PragmaConditional("c", 0, <<o>>) : o \in Rotations}
    \cup {PragmaConditional("c", 0, <<Bogoliubov(0, 1), RotateX(0, CStr("theta"))>>),
          PragmaConditional("c", 0, <<RotateX(0, CStr("theta")), Bogoliubov(0, 1)>>),
          PragmaLoop(CFloat(2000), <<RotateX(0, CStr("theta"))>>)}

InitGathering ==
    /\ qubit_register_name = "q"
    /\ qasm_version \in QasmVersion
    /\ circuit = << >>
    /\ call = NoCall
    /\ pc = "idle"
    /\ idx = 0
    /\ definitions = << >>
    /\ data = << >>
    /\ number_qubits_required = 0
    /\ already_seen_definitions = << >>
    /\ emitted = << >>
    /\ results = << >>
    /\ fs = NoFile
    /\ file_log = << >>
    /\ parsed = NotParsed
    /\ called \in {[NotCalled EXCEPT !.operation = op] : op \in GatheringOps}
    /\ variables \in {{}, {"theta"}}
    /\ parse_log = << >>

\* call_operation(operation, qubit_register_name, qasm_version, &mut Some(gatherer))
CallOperationGathering ==
    /\ ~called.done
    /\ called' = [called EXCEPT
                    !.done = TRUE,
                    !.result = call_operation(called.operation, qubit_register_name,
                                              qasm_version)]
    /\ variables' = gathered(called.operation, qasm_version, variables)
    /\ UNCHANGED <<qubit_register_name, qasm_version, circuit, call, pc, idx, locals,
                   results, fs, file_log, parsed, parse_log>>

NextGathering == CallOperationGathering

SpecGathering == InitGathering /\ [][NextGathering]_vars

\* the symbolic parameters written in a text: those of its gate calls and of
\* its gphase statements
RECURSIVE SymbolicParameters(_)
SymbolicParameters(text) ==
    IF text = << >> THEN {}
    ELSE (CASE Head(text).rule = "gate" ->
                 {Head(text).params[i].s :
                     i \in {j \in 1..Len(Head(text).params) : ~Head(text).params[j].num}}
            [] Head(text).rule = "gphase" ->
                 IF Head(text).phase.num THEN {} ELSE {Head(text).phase.s}
            [] OTHER -> {})
         \cup SymbolicParameters(Tail(text))
\* the free variables they name
FreeVariables(text) == UNION {Identifiers(Lexemes(s)) : s \in SymbolicParameters(text)}

\* C21: when call_operation, given a VariableGatherer and a Version 3.0
\* target, returns text, the gatherer holds afterwards every free variable of
\* every symbolic parameter written in that text.
C21_GathersEveryVariable ==
    (called.done /\ IsV3(qasm_version) /\ Res.ok) =>
        FreeVariables(Res.text) \subseteq variables

\* what does hold: the angle of a rotation handed to call_operation itself
\* is parsed, and the gatherer holds what that parse leaves
C21_DirectRotation ==
    (called.done /\ IsV3(qasm_version) /\ Op \in Rotations) =>
        /\ (Op.theta.s \in {"theta", "a+b", "2*theta", "sin(x)"} =>
               Identifiers(Lexemes(Op.theta.s)) \subseteq variables)
        /\ (Op.theta.s = "a/b+c" => {"a", "b"} \subseteq variables /\ "c" \notin variables)

\* the parameter calls a function that is refused for OpenQASM 3.0
CallsRefused(calculator_float) ==
    /\ ~calculator_float.float
    /\ RefusedCalls(Lexemes(calculator_float.s)) # {}

\* C22: under a Version 3.0 target, with a VariableGatherer, an operation
\* whose symbolic parameter calls a function refused for 3.0 makes
\* call_operation return an error that names the function, and no text.
C22_RefusedFunctionFails ==
    (called.done /\ IsV3(qasm_version) /\ Op \in Rotations /\ CallsRefused(Op.theta)) =>
        /\ ~Res.ok
        /\ Res.text = << >>
        /\ \E i \in RefusedCalls(Lexemes(Op.theta.s)) :
              Res.err.what = Lexemes(Op.theta.s)[i].s


\* ------------------------------------------------------ parse and panics
\* C23: for every input string, the empty string, strings of white space
\* and strings with non-ASCII characters included, parse returns Ok or Err;
\* it never panics.
C23_NeverPanics == \A p \in Parses : parse_log[p].outcome \in {"ok", "err"}

\* what does hold: parse panics on the empty string and on a character of
\* several bytes that is no letter, and on nothing else; a string of white
\* space gives the error NoValueReturnedParsing
C23_PanicsOnlyThere ==
    \A p \in Parses :
        LET e == parse_log[p].expression
        IN /\ (e = << >>) => parse_log[p].outcome = "panic"
           /\ parse_log[p].outcome = "panic" =>
                 (e = << >> \/ \E i \in 1..Len(e) : e[i].k = "wide")
           /\ (e # << >> /\ \A i \in 1..Len(e) : e[i].k = "space") =>
                 /\ parse_log[p].outcome = "err"
                 /\ parse_log[p].err.kind = "NoValueReturnedParsing"


\* ================================================== string_to_circuit alone
\* The statements of the texts handed to string_to_circuit: definitions of
\* custom gates, calls of custom, unknown and built-in gates, with the right
\* number of qubits and parameters and with too few.
TextStatements ==
    {GateDef("g", << >>, <<Slot("a")>>, <<B("x", << >>, <<"a">>)>>),
     GateDef("g", <<"t">>, <<Slot("a"), Slot("b")>>, <<B("cx", << >>, <<"a", "b">>)>>),
     GateDef("k", << >>, <<Slot("a"), Slot("b")>>, <<B("cx", << >>, <<"a">>)>>),
     GateDef("k", <<"t">>, <<Slot("a")>>, <<B("rx", << >>, <<"a">>)>>),
     GateCall("g", << >>, <<QRef("q", 0)>>),
     GateCall("g", << >>, <<QRef("q", 0), QRef("q", 1)>>),
     GateCall("g", <<ParamText(CFloat(500))>>, <<QRef("q", 0), QRef("q", 1)>>),
     GateCall("foo", << >>, <<QRef("q", 0)>>),
     GateCall("x", << >>, <<QRef("q", 1)>>),
     GateCall("cx", << >>, <<QRef("q", 0), QRef("q", 1)>>),
     GateCall("cx", << >>, <<QRef("q", 0)>>),
     GateCall("rx", <<ParamText(CFloat(500))>>, <<QRef("q", 0)>>),
     GateCall("rx", << >>, <<QRef("q", 0)>>)}

\* "OPENQASM 2.0;", the register and one statement on every line
TextOf(statements) ==
    Header(V2point0) \o register_declaration("q", 1, V2point0)
    \o Lines([i \in 1..Len(statements) |-> <<statements[i]>>])

Texts == {TextOf(t) : t \in SeqsUpTo(TextStatements, MaxLen)}

InitText ==
    /\ qubit_register_name = "q"
    /\ qasm_version = V2point0
    /\ circuit = << >>
    /\ call = NoCall
    /\ pc = "idle"
    /\ idx = 0
    /\ definitions = << >>
    /\ data = << >>
    /\ number_qubits_required = 0
    /\ already_seen_definitions = << >>
    /\ emitted = << >>
    /\ results \in {<<Ok(t)>> : t \in Texts}
    /\ fs = NoFile
    /\ file_log = << >>
    /\ parsed = NotParsed
    /\ called = NotCalled
    /\ variables = {}
    /\ parse_log = << >>

NextText == ParseBack

SpecText == InitText /\ [][NextText]_vars

\* the statements of the text string_to_circuit was called with
Input == Statements(results[1].text)
\* the names gate_dispatch has an arm for, with the qubits and parameters the
\* arm reads
Required(name) ==
    CASE name \in {"rz", "rx", "ry", "u1"} -> [known |-> TRUE, qubits |-> 1, params |-> 1]
      [] name \in {"h", "x"} -> [known |-> TRUE, qubits |-> 1, params |-> 0]
      [] name = "cx" -> [known |-> TRUE, qubits |-> 2, params |-> 0]
      [] name = "rxx" -> [known |-> TRUE, qubits |-> 2, params |-> 1]
      [] name = "u2" -> [known |-> TRUE, qubits |-> 1, params |-> 2]
      [] name = "u3" -> [known |-> TRUE, qubits |-> 1, params |-> 3]
      [] OTHER -> [known |-> FALSE, qubits |-> 0, params |-> 0]
\* the calls of gates that are not in the table
UnknownCalls == {k \in 1..Len(Input) : Input[k].rule = "gate" /\ ~Required(Input[k].id).known}
\* a definition with the name and the arities of the call at k stands before it
DefinedBefore(k) ==
    \E j \in 1..(k - 1) :
        /\ Input[j].rule = "gate_def"
        /\ Input[j].id = Input[k].id
        /\ Len(Input[j].slots) = Len(Input[k].qubits)
        /\ Len(Input[j].formals) = Len(Input[k].params)
CallsOf(c) == {i \in 1..Len(c) : c[i].hqslang = "CallDefinedGate"}
ParseError == parsed.done /\ ~parsed.ok /\ ~parsed.panic

\* C24: a call of a gate that is not in the dispatch table gives a
\* CallDefinedGate if and only if a definition with the same name, number of
\* qubits and number of parameters stands earlier in the text; in every
\* other case string_to_circuit returns a parse error and no Circuit.
C24_UnknownGateIsError ==
    parsed.done =>
        \A k \in UnknownCalls :
            IF DefinedBefore(k)
            THEN parsed.ok
                 /\ \E i \in CallsOf(parsed.circuit) :
                       parsed.circuit[i].gate_name = Input[k].id
            ELSE ParseError /\ parsed.circuit = << >>

\* what does hold: when string_to_circuit returns, the Circuit holds one
\* CallDefinedGate for every call with a matching earlier definition, and a
\* call without one is left out without any error
C24_UnknownGateIsDropped ==
    (parsed.done /\ ~parsed.panic) =>
        /\ parsed.ok
        /\ Cardinality(CallsOf(parsed.circuit))
              = Cardinality({k \in UnknownCalls : DefinedBefore(k)})

\* a call of a built-in gate with fewer qubits or parameters than its arm reads
TooShort(g) ==
    /\ g.rule = "gate"
    /\ Required(g.id).known
    /\ \/ Len(g.qubits) < Required(g.id).qubits
       \/ Len(g.params) < Required(g.id).params
HasShortCall ==
    \E k \in 1..Len(Input) :
        \/ TooShort(Input[k])
        \/ /\ Input[k].rule = "gate_def"
           /\ \E b \in 1..Len(Input[k].body) : TooShort(Input[k].body[b])

\* C25: a call of a built-in gate with fewer qubits or parameters than the
\* gate requires, at top level or in the body of a gate definition, makes
\* string_to_circuit return a parse error; it neither panics nor returns a
\* Circuit.
C25_ShortCallIsError == (parsed.done /\ HasShortCall) => ParseError

\* what does hold: string_to_circuit panics on such a text, and on no other
C25_ShortCallPanics == parsed.done => (parsed.panic <=> HasShortCall)


\* ================================== call_operation and gate_dispatch, a gate
\* the gates call_operation writes under 2.0 as one call `name(params) qubits;`
Angles == {CFloat(500), CFloat(PiMilli), CStr("theta")}
QubitPairs == {<<0, 1>>, <<1, 0>>, <<0, 2>>, <<2, 1>>}
PlainGates ==
    UNION {{PauliX(q), Hadamard(q), Identity(q)} : q \in 0..2}
    \cup {RotateX(q, a) : q \in 0..2, a \in Angles}
    \cup {RotateZ(q, a) : q \in 0..2, a \in Angles}
    \cup {CNOT(p[1], p[2]) : p \in QubitPairs}
    \cup {MolmerSorensenXX(p[1], p[2]) : p \in QubitPairs}
    \cup {VariableMSXX(p[1], p[2], a) : p \in QubitPairs, a \in Angles}

InitDispatch ==
    /\ qubit_register_name = "q"
    /\ qasm_version = V2point0
    /\ circuit = << >>
    /\ call = NoCall
    /\ pc = "idle"
    /\ idx = 0
    /\ definitions = << >>
    /\ data = << >>
    /\ number_qubits_required = 0
    /\ already_seen_definitions = << >>
    /\ emitted = << >>
    /\ results = << >>
    /\ fs = NoFile
    /\ file_log = << >>
    /\ parsed = NotParsed
    /\ called \in {[NotCalled EXCEPT !.operation = op] : op \in PlainGates}
    /\ variables = {}
    /\ parse_log = << >>

\* gate_dispatch(name, params, qubits, &[]) on the name, the parameters and
\* the qubit indices of the call that call_operation wrote
Dispatch ==
    /\ called.done
    /\ called.result.ok
    /\ ~parsed.done
    /\ \E g \in {called.result.text[1]} :
       \E d \in {gate_dispatch(g.id,
                               [i \in 1..Len(g.params) |-> from_string(g.params[i])],
                               [i \in 1..Len(g.qubits) |-> g.qubits[i].idx], {})} :
          parsed' = [done |-> TRUE, ok |-> d.some, panic |-> d.panic,
                     circuit |-> IF d.some THEN <<d.op>> ELSE << >>]
    /\ UNCHANGED <<qubit_register_name, qasm_version, circuit, call, pc, idx, locals,
                   results, fs, file_log, gatherer>>

NextDispatch == CallOperation \/ Dispatch

SpecDispatch == InitDispatch /\ [][NextDispatch]_vars

\* C26: for every gate kind that call_operation writes under Version 2.0 as
\* a plain call, gate_dispatch maps the name of that call, with its qubits
\* and parameters, back to the same gate kind.
C26_DispatchMirrors ==
    parsed.done =>
        /\ parsed.ok
        /\ parsed.circuit[1].hqslang = Op.hqslang

\* what does hold: `id` has no arm and is dropped, `rxx(pi/2)` comes back as
\* a VariableMSXX, `rxx(theta)` with theta close to pi comes back as a
\* MolmerSorensenXX, and every other call comes back as the very same
\* operation
C26_MirroredKinds ==
    parsed.done =>
        CASE Op.hqslang = "Identity" -> ~parsed.ok /\ ~parsed.panic
          [] Op.hqslang = "MolmerSorensenXX" ->
               parsed.circuit = <<VariableMSXX(Op.control, Op.target, CStr("pi/2"))>>
          [] Op.hqslang = "VariableMSXX" /\ Op.theta = CFloat(PiMilli) ->
               parsed.circuit = <<MolmerSorensenXX(Op.control, Op.target)>>
          [] OTHER -> parsed.ok /\ parsed.circuit = <<Op>>


\* ================================================= call_circuit, two targets
\* gates, measurements and register declarations; Bogoliubov and GPi have
\* no arm for either target
TwoTargetOps ==
    {RotateX(0, CFloat(HalfPiMilli)), RotateZ(2, CStr("theta")),
     PauliX(0), Hadamard(1), CNOT(0, 1),
     MolmerSorensenXX(0, 1), VariableMSXX(0, 2, CFloat(500)),
     MeasureQubit(0, "ro", 0),
     PragmaRepeatedMeasurement("ro", 20, FALSE, << >>),
     PragmaRepeatedMeasurement("ro", 20, TRUE, <<(<<0, 1>>), (<<1, 0>>)>>),
     DefinitionBit("ro", 2, FALSE), DefinitionBit("ro", 2, TRUE),
     DefinitionFloat("rf", 1, TRUE),
     Bogoliubov(0, 1), GPi(0, CFloat(PiMilli))}

InitCircuit ==
    /\ qubit_register_name = "q"
    /\ qasm_version = V2point0
    /\ circuit \in SeqsUpTo(TwoTargetOps, MaxLen)
    /\ call = NoCall
    /\ pc = "idle"
    /\ idx = 0
    /\ definitions = << >>
    /\ data = << >>
    /\ number_qubits_required = 0
    /\ already_seen_definitions = << >>
    /\ emitted = << >>
    /\ results = << >>
    /\ fs = NoFile
    /\ file_log = << >>
    /\ parsed = NotParsed
    /\ called = NotCalled
    /\ variables = {}
    /\ parse_log = << >>

\* call_circuit(&circuit, "q", v) for a target v that was not called yet
CallCircuit ==
    /\ \E v \in {V2point0, V3Vanilla} \ {results[i].version : i \in 1..Len(results)} :
       \E r \in {call_circuit(circuit, qubit_register_name, v)} :
          results' = Append(results, [version |-> v, ok |-> r.ok, texts |-> r.texts])
    /\ UNCHANGED <<qubit_register_name, qasm_version, circuit, call, pc, idx, locals,
                   fs, file_log, parsed, gatherer>>

NextCircuit == CallCircuit

SpecCircuit == InitCircuit /\ [][NextCircuit]_vars

BothRendered == Len(results) = 2 /\ results[1].ok /\ results[2].ok
IsDeclaration(op) == op.hqslang \in {"DefinitionBit", "DefinitionFloat"}

\* C27: when call_circuit returns under Version 2.0 and under Version 3.0
\* Vanilla, the two sequences have the length of the circuit, the i-th entry
\* of each is what call_operation writes for the i-th operation under that
\* version, and the entries differ only where the operation is a register
\* declaration.
C27_TargetsDifferInDeclarations ==
    BothRendered =>
        /\ Len(results[1].texts) = Len(circuit)
        /\ Len(results[2].texts) = Len(circuit)
        /\ \A i \in 1..Len(circuit) :
              /\ \A k \in 1..2 :
                    results[k].texts[i] =
                        call_operation(circuit[i], qubit_register_name,
                                       results[k].version).text
              /\ results[1].texts[i] # results[2].texts[i] => IsDeclaration(circuit[i])

\* both targets wrote a declaration followed by a measurement: the first
\* entries differ, the second are equal
C27_Witness ==
    /\ BothRendered
    /\ Len(circuit) = 2
    /\ IsDeclaration(circuit[1])
    /\ circuit[2].hqslang = "MeasureQubit"
    /\ results[1].texts[1] # results[2].texts[1]
    /\ results[1].texts[2] = results[2].texts[2]


\* ======================================== call_operation, PragmaConditional
\* nested operations that give one line, several lines or no text under 2.0
GuardedOps ==
    {Hadamard(0), PauliX(1), RotateX(0, CStr("theta")), MeasureQubit(0, "ro", 0),
     PragmaSleep(<<0>>, CFloat(500)), PragmaSleep(<<0, 1>>, CFloat(500)),
     PragmaRepeatedMeasurement("ro", 20, FALSE, << >>),
     PragmaRepeatedMeasurement("ro", 20, TRUE, <<(<<0, 1>>), (<<1, 0>>)>>),
     PragmaLoop(CFloat(1000), <<Hadamard(0)>>),
     PragmaLoop(CFloat(2000), <<Hadamard(0)>>),
     InputSymbolic("theta"),
     PragmaConditional("c", 1, <<PauliX(0)>>)}

InitConditional ==
    /\ qubit_register_name = "q"
    /\ qasm_version = V2point0
    /\ circuit = << >>
    /\ call = NoCall
    /\ pc = "idle"
    /\ idx = 0
    /\ definitions = << >>
    /\ data = << >>
    /\ number_qubits_required = 0
    /\ already_seen_definitions = << >>
    /\ emitted = << >>
    /\ results = << >>
    /\ fs = NoFile
    /\ file_log = << >>
    /\ parsed = NotParsed
    /\ called \in {[NotCalled EXCEPT !.operation = PragmaConditional("c", 0, c)]
                   : c \in SeqsUpTo(GuardedOps, MaxLen)}
    /\ variables = {}
    /\ parse_log = << >>

SpecConditional == InitConditional /\ [][NextCall]_vars

IsGuard(x) == x.rule = "if"
IsStatement(x) == x # NL /\ ~IsGuard(x)

\* C28: under Version 2.0, in the text of a PragmaConditional every statement
\* follows a guard on its line, and every guard is followed by exactly one
\* statement, whatever the nested operations are.
C28_GuardPerStatement ==
    (called.done /\ Res.ok) =>
        \A k \in 1..Len(Res.text) :
           /\ IsStatement(Res.text[k]) => (k > 1 /\ IsGuard(Res.text[k - 1]))
           /\ IsGuard(Res.text[k]) =>
                 /\ k < Len(Res.text)
                 /\ IsStatement(Res.text[k + 1])
                 /\ (k + 1 < Len(Res.text) => Res.text[k + 2] = NL)

OneLine(op) ==
    The({r.ok /\ Len(Statements(r.text)) = 1
         : r \in {call_operation(op, qubit_register_name, V2point0)}})

\* what does hold: there is one guard per nested operation, in front of the
\* text of that operation, so the statements are guarded one by one exactly
\* when every nested operation gives one statement
C28_GuardPerOperation ==
    (called.done /\ Res.ok) =>
        /\ Cardinality({k \in 1..Len(Res.text) : IsGuard(Res.text[k])}) = Len(Op.circuit)
        /\ (\A i \in 1..Len(Op.circuit) : OneLine(Op.circuit[i])) <=>
           (\A k \in 1..Len(Res.text) :
               /\ IsStatement(Res.text[k]) => (k > 1 /\ IsGuard(Res.text[k - 1]))
               /\ IsGuard(Res.text[k]) =>
                     /\ k < Len(Res.text)
                     /\ IsStatement(Res.text[k + 1])
                     /\ (k + 1 < Len(Res.text) => Res.text[k + 2] = NL))


\* ============================================ circuits that use gates inside
\* gates at top level, in the circuit of a GateDefinition and in the nested
\* circuit of a PragmaConditional or a PragmaLoop
NestingOps ==
    {PauliX(0), Hadamard(1), RotateX(0, CFloat(HalfPiMilli)),
     GateDefinition(<<PauliX(0), CNOT(0, 1)>>, "g", <<0, 1>>, << >>),
     GateDefinition(<<Hadamard(0)>>, "k", <<0>>, << >>),
     CallDefinedGate("g", <<0, 1>>, << >>),
     PragmaConditional("c", 0, <<Hadamard(0)>>),
     PragmaLoop(CFloat(2000), <<PauliX(0)>>)}

InitNesting ==
    /\ qubit_register_name = "q"
    /\ qasm_version \in QasmVersion
    /\ circuit \in SeqsUpTo(NestingOps, MaxLen)
    /\ call = NoCall
    /\ pc = "idle"
    /\ idx = 0
    /\ definitions = << >>
    /\ data = << >>
    /\ number_qubits_required = 0
    /\ already_seen_definitions = << >>
    /\ emitted = << >>
    /\ results = << >>
    /\ fs = NoFile
    /\ file_log = << >>
    /\ parsed = NotParsed
    /\ called = NotCalled
    /\ variables = {}
    /\ parse_log = << >>

SpecNesting == InitNesting /\ [][Next]_vars

\* the names gate_definition gives to the gates it knows
BuiltinNames == {"rx", "ry", "rz", "x", "h", "cx", "rxx", "id"}
IsBuiltinCall(x) == x.rule = "gate" /\ x.id \in BuiltinNames
DefinedBy(t, k, id) == \E j \in 1..(k - 1) : t[j].rule = "gate_def" /\ t[j].id = id
FirstQDecl(t) == CHOOSE k \in QDecls(t) : TRUE

\* C29: in every returned text, a built-in gate that a statement of the body
\* calls, or that the definition of a custom gate calls, is defined by a
\* `gate` definition earlier in the text.
C29_UsedGatesAreDefined ==
    \A r \in Calls :
        Returned(r).ok =>
            \A t \in {Returned(r).text} :
            \A k \in 1..Len(t) :
               /\ (k > FirstQDecl(t) /\ IsBuiltinCall(t[k])) => DefinedBy(t, k, t[k].id)
               /\ (t[k].rule = "gate_def"
                   /\ \E i \in 1..Len(circuit) :
                         circuit[i].hqslang = "GateDefinition" /\ circuit[i].name = t[k].id)
                  => \A b \in 1..Len(t[k].body) :
                        IsBuiltinCall(t[k].body[b]) => DefinedBy(t, k, t[k].body[b].id)

\* what does hold: the definition of every gate that is an operation of the
\* circuit itself stands in the definitions block
C29_TopLevelGatesAreDefined ==
    \A r \in Calls :
        Returned(r).ok =>
            \A t \in {Returned(r).text} :
            \A i \in 1..Len(circuit) :
               circuit[i].hqslang \in {"PauliX", "Hadamard", "RotateX"} =>
                  \E j \in 1..(FirstQDecl(t) - 1) :
                     <<t[j]>> = gate_definition(circuit[i], qasm_version).text


\* ===================================================== TokenIterator alone
\* an identifier, then nothing, `(`, `=` or `+`, at once or after white
\* space, then the rest of an expression
Followers == {<< >>, <<Sym("(")>>, <<Sym("=")>>, <<Sym("+")>>}
Rests == {<< >>, <<Word("b")>>, <<Word("b"), Sym(")")>>}
TokenInputs ==
    {<<Word(w)>> \o gap \o f \o r
     : w \in {"sin", "a"}, gap \in Gaps, f \in Followers, r \in Rests}

\* data is the current_expression of the iterator, emitted the calls of next
\* so far: the str before, the token delivered, the str after
InitTokens ==
    /\ qubit_register_name = "q"
    /\ qasm_version = V3Vanilla
    /\ circuit = << >>
    /\ call = NoCall
    /\ pc = "idle"
    /\ idx = 0
    /\ definitions = << >>
    /\ data \in TokenInputs
    /\ number_qubits_required = 0
    /\ already_seen_definitions = << >>
    /\ emitted = << >>
    /\ results = << >>
    /\ fs = NoFile
    /\ file_log = << >>
    /\ parsed = NotParsed
    /\ called = NotCalled
    /\ variables = {}
    /\ parse_log = << >>

\* TokenIterator::next, as long as it gives Some(token)
TokenIteratorNext ==
    /\ \E r \in {next_token_and_str(data)} :
          /\ ~r.none
          /\ ~r.panic
          /\ emitted' = Append(emitted, [expression |-> data, token |-> r.token,
                                         str |-> r.str])
          /\ data' = r.str
    /\ UNCHANGED <<qubit_register_name, qasm_version, circuit, call, pc, idx,
                   definitions, number_qubits_required, already_seen_definitions,
                   results, fs, file_log, parsed, gatherer>>

NextTokens == TokenIteratorNext

SpecTokens == InitTokens /\ [][NextTokens]_vars

\* the calls of next that met an identifier
AtIdentifier ==
    {k \in 1..Len(emitted) :
        /\ SkipSpaces(emitted[k].expression) # << >>
        /\ Head(SkipSpaces(emitted[k].expression)).k = "word"}
\* what follows the identifier of call k in the str
AfterIdentifier(k) == Tail(SkipSpaces(emitted[k].expression))
StartsWith(e, c) == e # << >> /\ Head(e) = Sym(c)

\* C30: an identifier is delivered as Function only when `(` follows it
\* immediately and as VariableAssign only when `=` does, and then the
\* identifier and that one character are consumed; with white space in
\* between the identifier is delivered as Variable and the bracket or the
\* assign sign stays in the str for a token of its own.
C30_ImmediatelyFollowed ==
    \A k \in AtIdentifier :
       /\ emitted[k].token.t = "Function" =>
             /\ StartsWith(AfterIdentifier(k), "(")
             /\ emitted[k].str = Tail(AfterIdentifier(k))
       /\ emitted[k].token.t = "VariableAssign" =>
             /\ StartsWith(AfterIdentifier(k), "=")
             /\ emitted[k].str = Tail(AfterIdentifier(k))
       /\ (AfterIdentifier(k) # << >> /\ Head(AfterIdentifier(k)).k = "space") =>
             /\ emitted[k].token.t = "Variable"
             /\ emitted[k].str = AfterIdentifier(k)

\* what does hold: the identifier is a Function or a VariableAssign when `(`
\* or `=` is the first character after it that is no white space; one
\* character after the identifier is consumed, which is the bracket or the
\* sign only when it follows at once, and otherwise one blank
C30_NextTokenDecides ==
    \A k \in AtIdentifier :
       /\ emitted[k].token.t =
             CASE StartsWith(SkipSpaces(AfterIdentifier(k)), "(") -> "Function"
               [] StartsWith(SkipSpaces(AfterIdentifier(k)), "=") -> "VariableAssign"
               [] OTHER -> "Variable"
       /\ emitted[k].token.s = SkipSpaces(emitted[k].expression)[1].s
       /\ IF emitted[k].token.t = "Variable"
          THEN emitted[k].str = AfterIdentifier(k)
          ELSE IF Head(AfterIdentifier(k)).k = "space"
               THEN SkipSpaces(emitted[k].str) = SkipSpaces(AfterIdentifier(k))
               ELSE emitted[k].str = Tail(AfterIdentifier(k))

====
